---- MODULE Spec2Model ----
(***************************************************************************)
(* The tree store of the nested-list editor (store/useStore.ts) and the    *)
(* node helpers it is built on (utils/nodeHelpers.ts).                     *)
(*                                                                         *)
(* Node ids are the naturals 1..MaxNodes, handed out in increasing order   *)
(* by generateId; Ghost is an id that generateId never returns, used for   *)
(* calls made with an id that was never a key of the node map.  NULL       *)
(* stands for both null and undefined.                                     *)
(***************************************************************************)
EXTENDS Integers, Sequences, FiniteSets, TLC

\* Bounds: how many ids generateId hands out in one behaviour, how many
\* structural mutations reach saveHistory in it, and how many selection and
\* focus calls it contains (undo, redo and rejected calls are not counted).
MaxNodes == 5
MaxCalls == 4
MaxSessionCalls == 2

\* APP_CONFIG.MAX_DEPTH is 6 and APP_CONFIG.MAX_HISTORY_ITEMS is 100 in
\* constants/config.ts.  The store is parametric in both; the model is
\* explored at reduced values so that the depth ceiling and a full history
\* are reached with MaxNodes nodes.
MAX_DEPTH == 3
MAX_HISTORY_ITEMS == 2

\* APP_CONFIG.MAX_SNAPSHOTS is 50; reduced likewise.
MAX_SNAPSHOTS == 2

\* APP_CONFIG.AUTO_SAVE_INTERVAL, in ticks of the clock of useAutoSave
AUTO_SAVE_INTERVAL == 2

\* How many createSnapshot calls one behaviour contains.
MaxSnapshotCalls == 3

\* How many field updates and presentation calls one behaviour contains.
MaxViewCalls == 2

NULL == 0

\* APP_CONFIG.DEFAULT_RTL
DEFAULT_RTL == TRUE
Ids == 1..MaxNodes
Ghost == MaxNodes + 1

\* Titles a caller passes in the data argument of createNode.
Titles == {"a"}

\* Titles a caller passes in the updates argument of updateNode.
UpdatedTitles == {"b"}

VARIABLES
    nodes,            \* AppState.nodes: id -> ListNode
    rootNodeIds,      \* AppState.rootNodeIds
    selectedNodeIds,  \* currentSession.selectedNodeIds
    focusedNodeId,    \* currentSession.focusedNodeId (NULL = undefined)
    focusPath,        \* currentSession.focusPath (<<NULL>> = undefined)
    historyEnabled,   \* currentSession.historyEnabled
    templates,        \* AppState.templates: the rootNodeId of each template
    past,             \* history.past
    future,           \* history.future
    nextId,           \* the next id generateId returns
    threw,            \* whether the last call raised an error (tracked
                      \* only by the specifications about errors)
    calls,            \* number of structural mutations applied so far
    lastCall,         \* the last structural mutation applied
    sessionCalls,     \* number of selection and focus calls made so far
    phase,            \* round-trip scenario: "free", "mutate", "undo", "redo"
    startTree,        \* round-trip scenario: the tree before M1
    endTree,          \* round-trip scenario: the tree right after Mn
    mutations,        \* round-trip scenario: n
    steps,            \* round-trip scenario: undo or redo calls made
    snapshots,        \* AppState.snapshots, in insertion order
    snapshotCalls,    \* number of createSnapshot calls made so far
    now,              \* the value Date.now() returned last
    imports,          \* number of successful importData calls so far
    lastInput,        \* the arguments of the last call (recorded only by
                      \* the specifications whose claims refer to them)
    rtl,              \* currentSession.rtl
    effectRtl,        \* useAutoSave: the rtl its effect in place was run for
    timeoutRef,       \* useAutoSave: ticks until the timer in timeoutRef
                      \* fires, -1 when it has fired or was cleared
    hasPendingChanges,\* useAutoSave: hasPendingChanges
    storage,          \* localStorage: the item under STORAGE_KEY, NULL if none
    sinceChange,      \* ticks since the most recent store change, -1
                      \* before the first
    writes            \* localStorage.setItem calls since that change

treeVars    == <<nodes, rootNodeIds>>
sessionVars == <<selectedNodeIds, focusedNodeId, focusPath, historyEnabled>>
histVars    == <<past, future>>
callVars    == <<calls, lastCall, sessionCalls>>
tripVars    == <<phase, startTree, endTree, mutations, steps>>
snapVars    == <<snapshots, snapshotCalls, now>>
saveVars    == <<effectRtl, timeoutRef, hasPendingChanges, storage,
                 sinceChange, writes>>
hookVars    == <<rtl, saveVars>>
vars        == <<nodes, rootNodeIds, selectedNodeIds, focusedNodeId, focusPath,
                 historyEnabled, past, future, nextId, threw, calls, lastCall,
                 sessionCalls, phase, startTree, endTree, mutations, steps,
                 templates, snapshots, snapshotCalls, now, imports,
                 lastInput, rtl, effectRtl, timeoutRef, hasPendingChanges,
                 storage, sinceChange, writes>>

----------------------------------------------------------------------------
(* Sequence helpers (Array.prototype methods used by the store).           *)

Range(s) == { s[i] : i \in DOMAIN s }

\* Array.prototype.includes
Includes(s, x) == x \in Range(s)

\* Array.prototype.filter with the predicate "element /= x"
RECURSIVE FilterOut(_, _)
FilterOut(s, x) ==
    IF s = <<>> THEN <<>>
    ELSE IF Head(s) = x THEN FilterOut(Tail(s), x)
         ELSE <<Head(s)>> \o FilterOut(Tail(s), x)

\* Array.prototype.filter with the predicate "element not in set"
FilterNotInKeepsAll(s, S) == s

RECURSIVE FilterNotIn(_, _)
FilterNotIn(s, S) ==
    IF s = <<>> THEN <<>>
    ELSE IF Head(s) \in S THEN FilterNotIn(Tail(s), S)
         ELSE <<Head(s)>> \o FilterNotIn(Tail(s), S)

\* Array.prototype.indexOf (0-based, -1 when absent)
RECURSIVE IndexFrom(_, _, _)
IndexFrom(s, x, i) ==
    IF i > Len(s) THEN -1
    ELSE IF s[i] = x THEN i - 1
         ELSE IndexFrom(s, x, i + 1)

IndexOf(s, x) == IndexFrom(s, x, 1)

\* Array.prototype.splice(start, 0, x): a negative start counts from the end,
\* a start beyond the end appends.
Splice(s, start, x) ==
    LET n == Len(s)
        k == IF start < 0 THEN (IF n + start < 0 THEN 0 ELSE n + start)
             ELSE IF start > n THEN n ELSE start
    IN  SubSeq(s, 1, k) \o <<x>> \o SubSeq(s, k + 1, n)

\* Number of occurrences of x in s
RECURSIVE Count(_, _)
Count(s, x) ==
    IF s = <<>> THEN 0
    ELSE (IF Head(s) = x THEN 1 ELSE 0) + Count(Tail(s), x)

----------------------------------------------------------------------------
(* utils/nodeHelpers.ts                                                    *)

Has(ns, id) == id \in DOMAIN ns

\* createNode helper: defaults overridden by the data the store passes.
NewNodeOrphan(id, parentId, level, title) ==
    [id |-> id, parentId |-> NULL, childrenIds |-> <<>>,
     title |-> title, isCollapsed |-> FALSE, level |-> level]

NewNode(id, parentId, level, title) ==
    [id |-> id, parentId |-> parentId, childrenIds |-> <<>>,
     title |-> title, isCollapsed |-> FALSE, level |-> level]

\* The while loop of getNodeDepth: count the nodes on the parentId chain.
RECURSIVE DepthWalk(_, _, _)
DepthWalk(currentId, ns, depth) ==
    IF currentId # NULL /\ Has(ns, currentId)
    THEN DepthWalk(ns[currentId].parentId, ns, depth + 1)
    ELSE depth

getNodeDepth(nodeId, ns) == DepthWalk(nodeId, ns, 0) - 1

\* The queue loop of getAllChildren; returns the ids in visiting order.
RECURSIVE ChildrenWalk(_, _, _)
ChildrenWalk(queue, ns, children) ==
    IF queue = <<>> THEN children
    ELSE LET childId == Head(queue)
         IN  IF Has(ns, childId)
             THEN ChildrenWalk(Tail(queue) \o ns[childId].childrenIds, ns,
                               Append(children, childId))
             ELSE ChildrenWalk(Tail(queue), ns, children)

getAllChildrenDirect(nodeId, ns) ==
    IF ~Has(ns, nodeId) THEN <<>> ELSE ns[nodeId].childrenIds

getAllChildren(nodeId, ns) ==
    IF ~Has(ns, nodeId) THEN <<>>
    ELSE ChildrenWalk(ns[nodeId].childrenIds, ns, <<>>)

\* The while loop of getPath; returns the ids, root first.
RECURSIVE PathWalk(_, _, _)
PathWalk(currentId, ns, path) ==
    IF currentId # NULL /\ Has(ns, currentId)
    THEN PathWalk(ns[currentId].parentId, ns, <<currentId>> \o path)
    ELSE path

getPath(nodeId, ns) == PathWalk(nodeId, ns, <<>>)

\* Math.max over a sequence of naturals
RECURSIVE MaxOf(_)
MaxOf(s) ==
    IF Len(s) = 1 THEN s[1]
    ELSE LET m == MaxOf(Tail(s)) IN IF Head(s) > m THEN Head(s) ELSE m

getMaxDepthInSubtreeFlat(nodeId, ns) == 0

RECURSIVE getMaxDepthInSubtree(_, _)
getMaxDepthInSubtree(nodeId, ns) ==
    IF ~Has(ns, nodeId) \/ ns[nodeId].childrenIds = <<>> THEN 0
    ELSE 1 + MaxOf([i \in DOMAIN ns[nodeId].childrenIds |->
                      getMaxDepthInSubtree(ns[nodeId].childrenIds[i], ns)])

canMoveNodeInclusive(nodeId, newParentId, ns, maxDepth) ==
    IF nodeId = newParentId THEN FALSE
    ELSE IF newParentId # NULL /\ Includes(getPath(newParentId, ns), nodeId)
         THEN FALSE
    ELSE IF ~Has(ns, nodeId) THEN FALSE
    ELSE LET nodeMaxDepth   == getMaxDepthInSubtree(nodeId, ns)
             newParentDepth == IF newParentId # NULL
                               THEN getNodeDepth(newParentId, ns) ELSE -1
         IN  newParentDepth + nodeMaxDepth + 1 <= maxDepth

canMoveNode(nodeId, newParentId, ns, maxDepth) ==
    IF nodeId = newParentId THEN FALSE
    ELSE IF newParentId # NULL /\ Includes(getPath(newParentId, ns), nodeId)
         THEN FALSE
    ELSE IF ~Has(ns, nodeId) THEN FALSE
    ELSE LET nodeMaxDepth   == getMaxDepthInSubtree(nodeId, ns)
             newParentDepth == IF newParentId # NULL
                               THEN getNodeDepth(newParentId, ns) ELSE -1
         IN  newParentDepth + nodeMaxDepth + 1 < maxDepth

\* The recursive updateLevels closure of moveNode, applied to each id of a
\* childrenIds list in turn.
updateLevelsSkipped(ns, ids, baseLevel) == ns

updateLevelsOneTooDeep(ns, ids, baseLevel) ==
    [k \in DOMAIN ns |->
        IF k \in Range(ids) THEN [ns[k] EXCEPT !.level = baseLevel + 1]
        ELSE ns[k]]

RECURSIVE updateLevels(_, _, _)
updateLevels(ns, ids, baseLevel) ==
    IF ids = <<>> THEN ns
    ELSE LET id == Head(ids)
         IN  IF ~Has(ns, id) THEN updateLevels(ns, Tail(ids), baseLevel)
             ELSE LET n1 == [ns EXCEPT ![id].level = baseLevel]
                      n2 == updateLevels(n1, n1[id].childrenIds, baseLevel + 1)
                  IN  updateLevels(n2, Tail(ids), baseLevel)

\* cloneRecursive of cloneSubtree: ids are generated in pre-order, starting
\* at next.  ok is FALSE when the walk reads a node that is not in the map
\* (the call throws).
RECURSIVE cloneRecursive(_, _, _, _), cloneChildren(_, _, _, _)
cloneRecursive(origId, newParentId, ns, next) ==
    IF ~Has(ns, origId)
    THEN [ok |-> FALSE, id |-> NULL, newNodes |-> << >>, next |-> next]
    ELSE LET newId   == next
             kids    == cloneChildren(ns[origId].childrenIds, newId, ns, next + 1)
             newNode == [ns[origId] EXCEPT !.id = newId,
                                           !.parentId = newParentId,
                                           !.childrenIds = kids.ids]
         IN  [ok |-> kids.ok, id |-> newId,
              newNodes |-> (newId :> newNode) @@ kids.newNodes,
              next |-> kids.next]

cloneChildren(children, newParentId, ns, next) ==
    IF children = <<>>
    THEN [ok |-> TRUE, ids |-> <<>>, newNodes |-> << >>, next |-> next]
    ELSE LET first == cloneRecursive(Head(children), newParentId, ns, next)
             rest  == cloneChildren(Tail(children), newParentId, ns, first.next)
         IN  [ok |-> first.ok /\ rest.ok, ids |-> <<first.id>> \o rest.ids,
              newNodes |-> first.newNodes @@ rest.newNodes,
              next |-> rest.next]

cloneSubtreeRootOnly(nodeId, ns, parentId, next) ==
    IF ~Has(ns, nodeId)
    THEN [ok |-> FALSE, id |-> NULL, newNodes |-> << >>, next |-> next]
    ELSE [ok |-> TRUE, id |-> next,
          newNodes |-> (next :> [ns[nodeId] EXCEPT !.id = next,
                                                   !.parentId = parentId,
                                                   !.childrenIds = <<>>]),
          next |-> next + 1]

cloneSubtree(nodeId, ns, parentId, next) ==
    cloneRecursive(nodeId, parentId, ns, next)

----------------------------------------------------------------------------
(* History (store/useStore.ts)                                             *)

Entry(ns, roots) == [nodes |-> ns, rootNodeIds |-> roots]

\* saveHistory, called with the state the mutation left behind: the new
\* value of history.
saveHistoryIgnoringFlag(ns, roots, enabled, p, f) ==
    LET pushed == Append(p, Entry(ns, roots))
    IN  [past   |-> IF Len(pushed) > MAX_HISTORY_ITEMS
                    THEN Tail(pushed) ELSE pushed,
         future |-> <<>>]

saveHistoryUnbounded(ns, roots, enabled, p, f) ==
    IF ~enabled THEN [past |-> p, future |-> f]
    ELSE [past |-> Append(p, Entry(ns, roots)), future |-> <<>>]

saveHistory(ns, roots, enabled, p, f) ==
    IF ~enabled THEN [past |-> p, future |-> f]
    ELSE LET pushed == Append(p, Entry(ns, roots))
         IN  [past   |-> IF Len(pushed) > MAX_HISTORY_ITEMS
                         THEN Tail(pushed) ELSE pushed,
              future |-> <<>>]

----------------------------------------------------------------------------
(* Initial state: initialState of the store.                               *)

\* An applied mutation: the operation, the id it acts on (for createNode and
\* duplicateNode the id of the new node), its other id (the parent argument
\* of createNode and moveNode, the original of duplicateNode, NULL for
\* deleteNode), the selection and focus the call found, and whether it
\* found the node named by arg collapsed.
Call(op, id, arg, selected, focused, collapsed) ==
    [op |-> op, id |-> id, arg |-> arg,
     selected |-> selected, focused |-> focused, collapsed |-> collapsed]

Init ==
    /\ nodes = << >>
    /\ rootNodeIds = <<>>
    /\ selectedNodeIds = <<>>
    /\ focusedNodeId = NULL
    /\ focusPath = <<NULL>>
    /\ historyEnabled = TRUE
    /\ templates = {}
    /\ past = <<>>
    /\ future = <<>>
    /\ nextId = 1
    /\ threw = FALSE
    /\ calls = 0
    /\ lastCall = Call("none", NULL, NULL, <<>>, NULL, FALSE)
    /\ sessionCalls = 0
    /\ phase = "free"
    /\ startTree = Entry(<< >>, <<>>)
    /\ endTree = Entry(<< >>, <<>>)
    /\ mutations = 0
    /\ steps = 0
    /\ snapshots = <<>>
    /\ snapshotCalls = 0
    /\ now = 0
    /\ imports = 0
    /\ lastInput = [op |-> "none"]
    /\ rtl = DEFAULT_RTL
    /\ effectRtl = DEFAULT_RTL
    /\ timeoutRef = -1
    /\ hasPendingChanges = FALSE
    /\ storage = NULL
    /\ sinceChange = -1
    /\ writes = 0

\* The mutation about to be applied is within the bound; it is recorded.
Counted(op, id, arg) ==
    /\ calls < MaxCalls
    /\ calls' = calls + 1
    /\ lastCall' = Call(op, id, arg, selectedNodeIds, focusedNodeId,
                      Has(nodes, arg) /\ nodes[arg].isCollapsed)
    /\ UNCHANGED sessionCalls

\* The selection or focus call about to be made is within the bound.
CountedSession ==
    /\ sessionCalls < MaxSessionCalls
    /\ sessionCalls' = sessionCalls + 1
    /\ UNCHANGED <<calls, lastCall>>

\* Ids passed to the calls: the keys of the node map and one id that is not
\* a key.  The store only ever tests an id for being a key, and undo, redo
\* replace the node map as a whole, so an id that is no longer a key behaves
\* as Ghost does.
TreeIds == DOMAIN nodes \cup {Ghost}

----------------------------------------------------------------------------
(* Node CRUD                                                               *)

\* The depth check of createNode: level >= APP_CONFIG.MAX_DEPTH.
levelTooDeepOffByOne(level) == level > MAX_DEPTH

levelTooDeep(level) == level >= MAX_DEPTH

createNode(parentId, title) ==
    LET hasParent == parentId # NULL /\ Has(nodes, parentId)
        level     == IF hasParent THEN nodes[parentId].level + 1 ELSE 0
    IN
    /\ IF levelTooDeep(level)
       THEN /\ UNCHANGED <<treeVars, histVars, nextId, callVars>>
       ELSE LET newNode == NewNode(nextId, parentId, level, title)
                added   == (nextId :> newNode) @@ nodes
                ns      == IF parentId # NULL /\ Has(added, parentId)
                           THEN [added EXCEPT
                                   ![parentId].childrenIds = Append(@, nextId),
                                   ![parentId].isCollapsed = FALSE]
                           ELSE added
                roots   == IF parentId # NULL /\ Has(added, parentId)
                           THEN rootNodeIds
                           ELSE Append(rootNodeIds, nextId)
                h       == saveHistory(ns, roots, historyEnabled, past, future)
            IN  /\ nextId <= MaxNodes
                /\ Counted("createNode", nextId, parentId)
                /\ nodes' = ns
                /\ rootNodeIds' = roots
                /\ past' = h.past
                /\ future' = h.future
                /\ nextId' = nextId + 1
    /\ UNCHANGED sessionVars

deleteNode(id) ==
    /\ IF ~Has(nodes, id)
       THEN UNCHANGED <<treeVars, sessionVars, histVars, callVars>>
       ELSE LET node      == nodes[id]
                toDelete  == <<id>> \o getAllChildren(id, nodes)
                inParent  == node.parentId # NULL /\ Has(nodes, node.parentId)
                detached  == IF inParent
                             THEN [nodes EXCEPT ![node.parentId].childrenIds =
                                                   FilterOut(@, id)]
                             ELSE nodes
                roots     == IF inParent THEN rootNodeIds
                             ELSE FilterOut(rootNodeIds, id)
                ns        == [k \in DOMAIN detached \ Range(toDelete) |->
                                detached[k]]
                h         == saveHistory(ns, roots, historyEnabled, past, future)
            IN  /\ Counted("deleteNode", id, NULL)
                /\ nodes' = ns
                /\ rootNodeIds' = roots
                /\ selectedNodeIds' =
                       FilterNotIn(selectedNodeIds, Range(toDelete))
                /\ focusedNodeId' =
                       IF focusedNodeId # NULL /\ Includes(toDelete, focusedNodeId)
                       THEN NULL ELSE focusedNodeId
                /\ UNCHANGED <<focusPath, historyEnabled>>
                /\ past' = h.past
                /\ future' = h.future
    /\ UNCHANGED nextId

\* moveNode raises a TypeError when canMoveNode lets a move through whose
\* target parent is not in the node map: draft.nodes[newParentId].level.
moveNodeThrows(nodeId, newParentId) ==
    /\ canMoveNode(nodeId, newParentId, nodes, MAX_DEPTH)
    /\ newParentId # NULL
    /\ ~Has(nodes, newParentId)

\* updateNode with an updates object that carries a title.
updateNode(id, updates) ==
    /\ nodes' = IF Has(nodes, id)
                THEN [nodes EXCEPT ![id] = updates @@ @]
                ELSE nodes
    /\ UNCHANGED <<rootNodeIds, sessionVars, histVars, nextId, callVars>>

toggleCollapse(id) ==
    /\ nodes' = IF Has(nodes, id)
                THEN [nodes EXCEPT ![id].isCollapsed = ~@]
                ELSE nodes
    /\ UNCHANGED <<rootNodeIds, sessionVars, histVars, nextId, callVars>>

\* An optional boolean field of a node: undefined, which negates to true,
\* when the node does not carry it.
Truthy(node, field) == field \in DOMAIN node /\ node[field]

Assigned(node, field, value) ==
    [k \in DOMAIN node \cup {field} |->
        IF k = field THEN value ELSE node[k]]

toggleDoneCheckpointed(id) ==
    LET ns == IF Has(nodes, id)
              THEN [nodes EXCEPT
                      ![id] = Assigned(@, "isDone", ~Truthy(@, "isDone"))]
              ELSE nodes
        h  == saveHistory(ns, rootNodeIds, historyEnabled, past, future)
    IN  /\ nodes' = ns
        /\ past' = h.past
        /\ future' = h.future
        /\ UNCHANGED <<rootNodeIds, sessionVars, nextId, callVars>>

toggleDone(id) ==
    /\ nodes' = IF Has(nodes, id)
                THEN [nodes EXCEPT
                        ![id] = Assigned(@, "isDone", ~Truthy(@, "isDone"))]
                ELSE nodes
    /\ UNCHANGED <<rootNodeIds, sessionVars, histVars, nextId, callVars>>

togglePin(id) ==
    /\ nodes' = IF Has(nodes, id)
                THEN [nodes EXCEPT
                        ![id] = Assigned(@, "isPinned",
                                         ~Truthy(@, "isPinned"))]
                ELSE nodes
    /\ UNCHANGED <<rootNodeIds, sessionVars, histVars, nextId, callVars>>

collapseAll ==
    /\ nodes' = [id \in DOMAIN nodes |->
                   IF Len(nodes[id].childrenIds) > 0
                   THEN [nodes[id] EXCEPT !.isCollapsed = TRUE]
                   ELSE nodes[id]]
    /\ UNCHANGED <<rootNodeIds, sessionVars, histVars, nextId, callVars>>

expandAll ==
    /\ nodes' = [id \in DOMAIN nodes |->
                   [nodes[id] EXCEPT !.isCollapsed = FALSE]]
    /\ UNCHANGED <<rootNodeIds, sessionVars, histVars, nextId, callVars>>

collapseToLevel(level) ==
    /\ nodes' = [id \in DOMAIN nodes |->
                   [nodes[id] EXCEPT !.isCollapsed =
                       /\ nodes[id].level >= level
                       /\ Len(nodes[id].childrenIds) > 0]]
    /\ UNCHANGED <<rootNodeIds, sessionVars, histVars, nextId, callVars>>

\* position is <<>> when the argument is omitted, <<k>> for the number k.
moveNode(nodeId, newParentId, position) ==
    IF ~canMoveNode(nodeId, newParentId, nodes, MAX_DEPTH)
    THEN UNCHANGED <<treeVars, sessionVars, histVars, nextId, callVars>>
    ELSE IF moveNodeThrows(nodeId, newParentId)
    THEN \* the producer throws and the draft is discarded
         UNCHANGED <<treeVars, sessionVars, histVars, nextId, callVars>>
    ELSE LET node      == nodes[nodeId]
             inParent  == node.parentId # NULL /\ Has(nodes, node.parentId)
             detached  == IF inParent
                          THEN [nodes EXCEPT ![node.parentId].childrenIds =
                                                FilterOut(@, nodeId)]
                          ELSE nodes
             roots1    == IF inParent THEN rootNodeIds
                          ELSE FilterOut(rootNodeIds, nodeId)
             newLevel  == IF newParentId # NULL
                          THEN detached[newParentId].level + 1 ELSE 0
             moved     == [detached EXCEPT ![nodeId].parentId = newParentId,
                                           ![nodeId].level = newLevel]
             levelled  == updateLevels(moved, node.childrenIds, newLevel + 1)
             toParent  == newParentId # NULL /\ Has(levelled, newParentId)
             ns        == IF toParent
                          THEN [levelled EXCEPT ![newParentId].childrenIds =
                                  IF position # <<>>
                                  THEN Splice(@, position[1], nodeId)
                                  ELSE Append(@, nodeId)]
                          ELSE levelled
             roots     == IF toParent THEN roots1
                          ELSE IF position # <<>>
                               THEN Splice(roots1, position[1], nodeId)
                               ELSE Append(roots1, nodeId)
             h         == saveHistory(ns, roots, historyEnabled, past, future)
         IN  /\ Counted("moveNode", nodeId, newParentId)
             /\ nodes' = ns
             /\ rootNodeIds' = roots
             /\ past' = h.past
             /\ future' = h.future
             /\ UNCHANGED <<sessionVars, nextId>>

\* Where duplicateNode puts the clone: right after the original.
insertAfterNowhere(list, id, newId) == list

insertAfterAtEnd(list, id, newId) == Append(list, newId)

insertAfter(list, id, newId) == Splice(list, IndexOf(list, id) + 1, newId)

duplicateNode(id) ==
    IF ~Has(nodes, id)
    THEN UNCHANGED <<treeVars, sessionVars, histVars, nextId, callVars>>
    ELSE LET node     == nodes[id]
             clone    == cloneSubtree(id, nodes, node.parentId, nextId)
             assigned == clone.newNodes @@ nodes
             inParent == node.parentId # NULL /\ Has(assigned, node.parentId)
             ns       == IF inParent
                         THEN [assigned EXCEPT ![node.parentId].childrenIds =
                                 insertAfter(@, id, clone.id)]
                         ELSE assigned
             roots    == IF inParent THEN rootNodeIds
                         ELSE insertAfter(rootNodeIds, id, clone.id)
             h        == saveHistory(ns, roots, historyEnabled, past, future)
         IN  /\ clone.next - 1 <= MaxNodes
             /\ IF ~clone.ok
                THEN UNCHANGED <<treeVars, histVars, nextId, callVars>>
                ELSE /\ Counted("duplicateNode", clone.id, id)
                     /\ nodes' = ns
                     /\ rootNodeIds' = roots
                     /\ past' = h.past
                     /\ future' = h.future
                     /\ nextId' = clone.next
             /\ UNCHANGED sessionVars

----------------------------------------------------------------------------
(* Templates.  A template is identified with its rootNodeId: the registry  *)
(* is the set of root ids, and applyTemplate takes the root id of the      *)
(* template it is called with.                                             *)

createTemplate(nodeId) ==
    /\ templates' = IF Has(nodes, nodeId) THEN templates \cup {nodeId}
                    ELSE templates
    /\ UNCHANGED <<treeVars, sessionVars, histVars, nextId, callVars>>

\* applyTemplate throws, before any change, when cloneSubtree does not find
\* the template's root.
applyTemplateThrows(rootNodeId) ==
    rootNodeId \in templates /\ ~Has(nodes, rootNodeId)

applyTemplate(rootNodeId, parentId) ==
    IF rootNodeId \notin templates \/ applyTemplateThrows(rootNodeId)
    THEN UNCHANGED <<treeVars, sessionVars, histVars, nextId, callVars,
                     templates>>
    ELSE LET clone    == cloneSubtree(rootNodeId, nodes, parentId, nextId)
             assigned == clone.newNodes @@ nodes
             inParent == parentId # NULL /\ Has(assigned, parentId)
             ns       == IF inParent
                         THEN [assigned EXCEPT ![parentId].childrenIds =
                                 Append(@, clone.id)]
                         ELSE assigned
             roots    == IF inParent THEN rootNodeIds
                         ELSE Append(rootNodeIds, clone.id)
             h        == saveHistory(ns, roots, historyEnabled, past, future)
         IN  /\ clone.next - 1 <= MaxNodes
             /\ Counted("applyTemplate", clone.id, parentId)
             /\ nodes' = ns
             /\ rootNodeIds' = roots
             /\ past' = h.past
             /\ future' = h.future
             /\ nextId' = clone.next
             /\ UNCHANGED <<sessionVars, templates>>

----------------------------------------------------------------------------
(* History actions                                                         *)

undo ==
    /\ IF past = <<>>
       THEN UNCHANGED <<treeVars, histVars>>
       ELSE LET previous == past[Len(past)]
            IN  /\ future' = Append(future, Entry(nodes, rootNodeIds))
                /\ nodes' = previous.nodes
                /\ rootNodeIds' = previous.rootNodeIds
                /\ past' = SubSeq(past, 1, Len(past) - 1)
    /\ UNCHANGED <<sessionVars, nextId, callVars>>

\* redo that does not save the current tree to past.
redoKeepsPast ==
    /\ IF future = <<>>
       THEN UNCHANGED <<treeVars, histVars>>
       ELSE LET next == future[Len(future)]
            IN  /\ past' = past
                /\ nodes' = next.nodes
                /\ rootNodeIds' = next.rootNodeIds
                /\ future' = SubSeq(future, 1, Len(future) - 1)
    /\ UNCHANGED <<sessionVars, nextId, callVars>>

redo ==
    /\ IF future = <<>>
       THEN UNCHANGED <<treeVars, histVars>>
       ELSE LET next == future[Len(future)]
            IN  /\ past' = Append(past, Entry(nodes, rootNodeIds))
                /\ nodes' = next.nodes
                /\ rootNodeIds' = next.rootNodeIds
                /\ future' = SubSeq(future, 1, Len(future) - 1)
    /\ UNCHANGED <<sessionVars, nextId, callVars>>

----------------------------------------------------------------------------
(* Selection and focus                                                     *)

SessionFrame == UNCHANGED <<treeVars, histVars, historyEnabled, nextId>>

\* selectNode whose multi branch pushes without the includes test.
selectNodeAlwaysPush(id, multi) ==
    /\ CountedSession
    /\ selectedNodeIds' = IF multi THEN Append(selectedNodeIds, id) ELSE <<id>>
    /\ UNCHANGED <<focusedNodeId, focusPath>>
    /\ SessionFrame

selectNode(id, multi) ==
    /\ CountedSession
    /\ selectedNodeIds' =
           IF multi
           THEN IF ~Includes(selectedNodeIds, id)
                THEN Append(selectedNodeIds, id) ELSE selectedNodeIds
           ELSE <<id>>
    /\ UNCHANGED <<focusedNodeId, focusPath>>
    /\ SessionFrame

deselectNode(id) ==
    /\ CountedSession
    /\ selectedNodeIds' = FilterOut(selectedNodeIds, id)
    /\ UNCHANGED <<focusedNodeId, focusPath>>
    /\ SessionFrame

clearSelection ==
    /\ CountedSession
    /\ selectedNodeIds' = <<>>
    /\ UNCHANGED <<focusedNodeId, focusPath>>
    /\ SessionFrame

\* Object.keys of the node map: the keys in insertion order; ids are
\* inserted in increasing order except after an undo or redo, which copies
\* the map of the restored entry.
RECURSIVE KeysFrom(_, _)
KeysFrom(ns, i) ==
    IF i > MaxNodes + 1 THEN <<>>
    ELSE (IF Has(ns, i) THEN <<i>> ELSE <<>>) \o KeysFrom(ns, i + 1)

ObjectKeys(ns) == KeysFrom(ns, 1)

selectAll ==
    /\ CountedSession
    /\ selectedNodeIds' = ObjectKeys(nodes)
    /\ UNCHANGED <<focusedNodeId, focusPath>>
    /\ SessionFrame

setFocusNode(id) ==
    /\ CountedSession
    /\ focusedNodeId' = id
    /\ UNCHANGED <<selectedNodeIds, focusPath>>
    /\ SessionFrame

\* The breadcrumb loop with push in place of unshift.
RECURSIVE ZoomWalkPushed(_, _, _)
ZoomWalkPushed(current, ns, path) ==
    LET path1 == Append(path, current)
        pid   == ns[current].parentId
    IN  IF pid # NULL /\ Has(ns, pid) THEN ZoomWalkPushed(pid, ns, path1)
        ELSE path1

\* The breadcrumb loop of zoomIn.
RECURSIVE ZoomWalk(_, _, _)
ZoomWalk(current, ns, path) ==
    LET path1 == <<current>> \o path
        pid   == ns[current].parentId
    IN  IF pid # NULL /\ Has(ns, pid) THEN ZoomWalk(pid, ns, path1)
        ELSE path1

zoomIn(id) ==
    /\ IF ~Has(nodes, id)
       THEN UNCHANGED <<sessionVars, callVars>>
       ELSE /\ CountedSession
            /\ focusedNodeId' = id
            /\ focusPath' = ZoomWalk(id, nodes, <<>>)
            /\ UNCHANGED <<selectedNodeIds, historyEnabled>>
    /\ UNCHANGED <<treeVars, histVars, nextId>>

\* zoomOut that tests path.length > 0.
zoomOutAnyLength ==
    /\ CountedSession
    /\ IF focusPath # <<NULL>> /\ Len(focusPath) > 0
       THEN /\ focusPath' = SubSeq(focusPath, 1, Len(focusPath) - 1)
            /\ focusedNodeId' = IF Len(focusPath) > 1
                                THEN focusPath[Len(focusPath) - 1] ELSE NULL
       ELSE /\ focusedNodeId' = NULL
            /\ focusPath' = <<NULL>>
    /\ UNCHANGED selectedNodeIds
    /\ SessionFrame

zoomOut ==
    /\ CountedSession
    /\ IF focusPath # <<NULL>> /\ Len(focusPath) > 1
       THEN /\ focusPath' = SubSeq(focusPath, 1, Len(focusPath) - 1)
            /\ focusedNodeId' = focusPath[Len(focusPath) - 1]
       ELSE /\ focusedNodeId' = NULL
            /\ focusPath' = <<NULL>>
    /\ UNCHANGED selectedNodeIds
    /\ SessionFrame

\* updateSession, for the one session field the tree store reads.
updateSession(updates) ==
    /\ historyEnabled' = updates.historyEnabled
    /\ UNCHANGED <<treeVars, histVars, nextId, callVars>>
    /\ UNCHANGED <<selectedNodeIds, focusedNodeId, focusPath>>

\* Values of the position argument of moveNode
Positions == {<<>>, <<0>>}

\* The structural mutations, each of which ends with saveHistory.
Mutation ==
    \/ \E p \in TreeIds \cup {NULL}, t \in Titles : createNode(p, t)
    \/ \E id \in TreeIds : deleteNode(id)
    \/ \E id \in TreeIds, p \in TreeIds \cup {NULL}, pos \in Positions :
           moveNode(id, p, pos)
    \/ \E id \in TreeIds : duplicateNode(id)

\* A call outside the error and round-trip scenarios: a call that throws
\* leaves the store as it was.
NoErrorTracking == UNCHANGED <<threw, tripVars, hookVars, templates, snapVars, imports, lastInput>>

\* The caller's side of the round-trip scenario.  The store is left alone
\* by the steps that only move the scenario on.
StoreFrame == UNCHANGED <<treeVars, sessionVars, histVars, nextId, callVars,
                          threw, templates, snapVars, imports, lastInput,
                          hookVars>>

BeginMutations ==
    /\ phase = "free"
    /\ historyEnabled
    /\ phase' = "mutate"
    /\ startTree' = Entry(nodes, rootNodeIds)
    /\ endTree' = Entry(nodes, rootNodeIds)
    /\ mutations' = 0
    /\ steps' = 0
    /\ StoreFrame

\* One of M1..Mn: a mutation that reaches saveHistory.
MutationStep ==
    /\ phase = "mutate"
    /\ mutations < MAX_HISTORY_ITEMS
    /\ Mutation
    /\ calls' = calls + 1
    /\ mutations' = mutations + 1
    /\ endTree' = Entry(nodes', rootNodeIds')
    /\ UNCHANGED <<phase, startTree, steps, threw, templates, snapVars,
                   imports, lastInput, hookVars>>

BeginUndo ==
    /\ phase = "mutate"
    /\ mutations >= 1
    /\ phase' = "undo"
    /\ UNCHANGED <<startTree, endTree, mutations, steps>>
    /\ StoreFrame

UndoStep ==
    /\ phase = "undo"
    /\ steps < mutations
    /\ undo
    /\ steps' = steps + 1
    /\ UNCHANGED <<phase, startTree, endTree, mutations, threw,
                 templates, snapVars, imports, lastInput, hookVars>>

BeginRedo ==
    /\ phase = "undo"
    /\ steps = mutations
    /\ phase' = "redo"
    /\ steps' = 0
    /\ UNCHANGED <<startTree, endTree, mutations>>
    /\ StoreFrame

RedoStep ==
    /\ phase = "redo"
    /\ steps < mutations
    /\ redo
    /\ steps' = steps + 1
    /\ UNCHANGED <<phase, startTree, endTree, mutations, threw,
                 templates, snapVars, imports, lastInput, hookVars>>

Next ==
    \/ Mutation /\ NoErrorTracking
    \/ undo /\ NoErrorTracking
    \/ redo /\ NoErrorTracking

\* Node creation (at the root or under an existing parent) and deletion,
\* with the selection and focus calls.
NextSession ==
    \/ (\E p \in DOMAIN nodes \cup {NULL}, t \in Titles : createNode(p, t))
           /\ NoErrorTracking
    \/ (\E id \in TreeIds : deleteNode(id)) /\ NoErrorTracking
    \/ (\E id \in TreeIds, multi \in BOOLEAN : selectNode(id, multi))
           /\ NoErrorTracking
    \/ (\E id \in TreeIds : deselectNode(id)) /\ NoErrorTracking
    \/ clearSelection /\ NoErrorTracking
    \/ selectAll /\ NoErrorTracking
    \/ (\E id \in TreeIds \cup {NULL} : setFocusNode(id)) /\ NoErrorTracking
    \/ (\E id \in TreeIds : zoomIn(id)) /\ NoErrorTracking
    \/ zoomOut /\ NoErrorTracking

SpecSession == Init /\ [][NextSession]_vars

\* Node creation (at the root or under an existing parent) and deletion
\* with the collapse toggle.
NextCollapse ==
    \/ (\E p \in DOMAIN nodes \cup {NULL}, t \in Titles : createNode(p, t))
           /\ NoErrorTracking
    \/ (\E id \in TreeIds : deleteNode(id)) /\ NoErrorTracking
    \/ (\E id \in TreeIds : toggleCollapse(id)) /\ NoErrorTracking

SpecCollapse == Init /\ [][NextCollapse]_vars

\* The calls with the errors they raise: threw tells whether the call just
\* made ended in an exception.  Only moveNode has a path that throws.
NextErrors ==
    \/ (\E p \in TreeIds \cup {NULL}, t \in Titles : createNode(p, t))
           /\ threw' = FALSE /\ UNCHANGED <<tripVars, hookVars, templates, snapVars, imports, lastInput>>
    \/ (\E id \in TreeIds : deleteNode(id))
           /\ threw' = FALSE /\ UNCHANGED <<tripVars, hookVars, templates, snapVars, imports, lastInput>>
    \/ (\E id \in TreeIds, t \in UpdatedTitles : updateNode(id, [title |-> t]))
           /\ threw' = FALSE /\ UNCHANGED <<tripVars, hookVars, templates, snapVars, imports, lastInput>>
    \/ (\E id \in TreeIds, p \in TreeIds \cup {NULL}, pos \in Positions :
           moveNode(id, p, pos) /\ threw' = moveNodeThrows(id, p))
           /\ UNCHANGED <<tripVars, hookVars, templates, snapVars, imports, lastInput>>

SpecErrors == Init /\ [][NextErrors]_vars

\* Node creation and deletion with the template calls; threw tells whether
\* the call just made ended in an exception.
NextTemplates ==
    \/ (\E p \in TreeIds \cup {NULL}, t \in Titles : createNode(p, t))
           /\ threw' = FALSE /\ UNCHANGED <<tripVars, hookVars, templates, snapVars, imports, lastInput>>
    \/ (\E id \in TreeIds : deleteNode(id))
           /\ threw' = FALSE /\ UNCHANGED <<tripVars, hookVars, templates, snapVars, imports, lastInput>>
    \/ (\E id \in TreeIds : createTemplate(id))
           /\ threw' = FALSE /\ UNCHANGED <<tripVars, hookVars, snapVars, imports, lastInput>>
    \/ (\E r \in templates, p \in TreeIds \cup {NULL} :
           applyTemplate(r, p) /\ threw' = applyTemplateThrows(r))
           /\ UNCHANGED <<tripVars, hookVars, snapVars, imports, lastInput>>

SpecTemplates == Init /\ [][NextTemplates]_vars

\* The store with history switched on and off through updateSession.
NextHistoryFlag ==
    \/ Next
    \/ (\E b \in BOOLEAN : updateSession([historyEnabled |-> b]))
           /\ NoErrorTracking

SpecHistoryFlag == Init /\ [][NextHistoryFlag]_vars

\* The round-trip scenario: any calls, then n mutations M1..Mn, then n
\* undo calls, then n redo calls.
NextRoundTrip ==
    \/ phase = "free" /\ Next
    \/ BeginMutations
    \/ MutationStep
    \/ BeginUndo
    \/ UndoStep
    \/ BeginRedo
    \/ RedoStep

SpecRoundTrip == Init /\ [][NextRoundTrip]_vars

----------------------------------------------------------------------------
(* Snapshots.  The registry is the sequence of its snapshots in insertion  *)
(* order (the order of Object.values); a snapshot made by createSnapshot   *)
(* gets an id above MaxNodes, one that no document names.                  *)

Snapshot(id, ns, roots, createdAt) ==
    [id |-> id, nodes |-> ns, rootNodeIds |-> roots, createdAt |-> createdAt]

\* state.snapshots[id]: the position of the snapshot in the registry, 0
\* when there is none.
SnapshotAt(id, registry) ==
    IF \E i \in DOMAIN registry : registry[i].id = id
    THEN CHOOSE i \in DOMAIN registry : registry[i].id = id
    ELSE 0

\* The position of registry[i] in Object.values(registry).sort((a, b) =>
\* b.createdAt - a.createdAt), counted from 0; the sort is stable.
SortedPosition(i, registry) ==
    Cardinality({ j \in DOMAIN registry :
                    \/ registry[j].createdAt > registry[i].createdAt
                    \/ /\ registry[j].createdAt = registry[i].createdAt
                       /\ j < i })

\* The registry without the snapshots that slice(MAX_SNAPSHOTS) returns.
RECURSIVE KeepNewest(_, _, _)
KeepNewest(registry, i, limit) ==
    IF i > Len(registry) THEN <<>>
    ELSE (IF SortedPosition(i, registry) < limit THEN <<registry[i]>>
          ELSE <<>>) \o KeepNewest(registry, i + 1, limit)

\* createSnapshot; tick is by how much Date.now() has advanced.
createSnapshot(tick) ==
    LET snapshot == Snapshot(MaxNodes + snapshotCalls + 1, nodes, rootNodeIds,
                             now + tick)
        added    == Append(snapshots, snapshot)
    IN  /\ snapshotCalls < MaxSnapshotCalls
        /\ snapshotCalls' = snapshotCalls + 1
        /\ now' = now + tick
        /\ snapshots' = IF Len(added) > MAX_SNAPSHOTS
                        THEN KeepNewest(added, 1, MAX_SNAPSHOTS) ELSE added
        /\ UNCHANGED <<treeVars, sessionVars, histVars, nextId, callVars,
                       templates, imports>>

\* restoreSnapshot that checkpoints before it replaces the tree.
restoreSnapshotSavesFirst(id) ==
    LET at == SnapshotAt(id, snapshots)
    IN  /\ IF at = 0
           THEN UNCHANGED <<treeVars, histVars, callVars>>
           ELSE LET h == saveHistory(nodes, rootNodeIds, historyEnabled,
                                     past, future)
                IN  /\ Counted("restoreSnapshot", id, NULL)
                    /\ nodes' = snapshots[at].nodes
                    /\ rootNodeIds' = snapshots[at].rootNodeIds
                    /\ past' = h.past
                    /\ future' = h.future
        /\ UNCHANGED <<sessionVars, nextId, templates, snapVars, imports>>

restoreSnapshot(id) ==
    LET at == SnapshotAt(id, snapshots)
    IN  /\ IF at = 0
           THEN UNCHANGED <<treeVars, histVars, callVars>>
           ELSE LET ns    == snapshots[at].nodes
                    roots == snapshots[at].rootNodeIds
                    h     == saveHistory(ns, roots, historyEnabled, past,
                                         future)
                IN  /\ Counted("restoreSnapshot", id, NULL)
                    /\ nodes' = ns
                    /\ rootNodeIds' = roots
                    /\ past' = h.past
                    /\ future' = h.future
        /\ UNCHANGED <<sessionVars, nextId, templates, snapVars, imports>>

----------------------------------------------------------------------------
(* Import: parseImportData and the sanitize functions it is built on.      *)
(*                                                                         *)
(* A document is the text handed to importData, modelled by what           *)
(* JSON.parse makes of it: valid is FALSE for text that JSON.parse         *)
(* rejects, and root is the parsed value otherwise.  A value carries its   *)
(* JavaScript type in t.  A number is kept in tenths, so that fractions    *)
(* are values; finite is FALSE for the number JSON.parse returns for a     *)
(* literal such as 1e999.  The payload of an object is a function from its *)
(* keys to values, a field that the object does not have being a key that  *)
(* is not in its domain; entries are visited in increasing key order.      *)
(* Strings are ids (naturals) or titles, and none of them is empty.        *)

Undefined == [t |-> "undefined"]
JSNull == [t |-> "null"]
JSBool(b) == [t |-> "boolean", v |-> b]
JSNum(tenths) == [t |-> "number", finite |-> TRUE, tenths |-> tenths]
JSInfinity == [t |-> "number", finite |-> FALSE, tenths |-> 0]
JSStr(str) == [t |-> "string", v |-> str]
JSArr(elems) == [t |-> "array", v |-> elems]
JSObj(fields) == [t |-> "object", v |-> fields]

\* typeof value === 'object'
TypeofObject(value) == value.t \in {"object", "array", "null"}

\* !value
Falsy(value) ==
    \/ value.t \in {"undefined", "null"}
    \/ value.t = "boolean" /\ ~value.v
    \/ value.t = "number" /\ value.finite /\ value.tenths = 0

\* value.name
Field(value, name) ==
    IF value.t = "object" /\ name \in DOMAIN value.v THEN value.v[name]
    ELSE Undefined

\* Math.trunc of a number given in tenths
Trunc(tenths) ==
    IF tenths >= 0 THEN tenths \div 10 ELSE -((-tenths) \div 10)

Min2(a, b) == IF a < b THEN a ELSE b
Max2(a, b) == IF a > b THEN a ELSE b

\* clampLevel without the upper limit.
clampLevelNoCeiling(level) ==
    IF ~level.finite THEN 0 ELSE Max2(0, Trunc(level.tenths))

clampLevel(level) ==
    IF ~level.finite THEN 0
    ELSE Min2(MAX_DEPTH - 1, Max2(0, Trunc(level.tenths)))

RECURSIVE StringsOf(_)
StringsOf(elems) ==
    IF elems = <<>> THEN <<>>
    ELSE (IF Head(elems).t = "string" THEN <<Head(elems).v>> ELSE <<>>)
         \o StringsOf(Tail(elems))

sanitizeStringArray(value) ==
    IF value.t # "array" THEN <<>> ELSE StringsOf(value.v)

\* Array.prototype.filter with the predicate "element is a key of ns"
RECURSIVE FilterKeys(_, _)
FilterKeys(ids, ns) ==
    IF ids = <<>> THEN <<>>
    ELSE (IF Has(ns, Head(ids)) THEN <<Head(ids)>> ELSE <<>>)
         \o FilterKeys(Tail(ids), ns)

\* sanitizeNode on an object raw; next is the id generateId returns next.
\* The result is the node and the id generateId returns after the call.
\* A field of a node that is kept when it is a boolean and undefined
\* otherwise.
OptionalFlag(raw, name) ==
    IF Field(raw, name).t = "boolean" THEN name :> Field(raw, name).v
    ELSE << >>

sanitizeNode(raw, next) ==
    LET generated == Field(raw, "id").t # "string"
        id        == IF generated THEN next ELSE Field(raw, "id").v
        level     == clampLevel(IF Field(raw, "level").t = "number"
                                THEN Field(raw, "level") ELSE JSNum(0))
    IN  [node |-> OptionalFlag(raw, "isDone") @@ OptionalFlag(raw, "isPinned")
                  @@
                  [id          |-> id,
                   parentId    |-> IF Field(raw, "parentId").t = "string"
                                   THEN Field(raw, "parentId").v ELSE NULL,
                   childrenIds |-> sanitizeStringArray(
                                       Field(raw, "childrenIds")),
                   title       |-> IF Field(raw, "title").t = "string"
                                   THEN Field(raw, "title").v ELSE "",
                   isCollapsed |-> IF Field(raw, "isCollapsed").t = "boolean"
                                   THEN Field(raw, "isCollapsed").v
                                   ELSE FALSE,
                   level       |-> level],
         next |-> IF generated THEN next + 1 ELSE next]

\* { id: key, ...nodeValue }: the fields of nodeValue over the id the key
\* gives; a nodeValue that is no object contributes no field.
SpreadOver(key, nodeValue) ==
    LET own == IF nodeValue.t = "object" THEN nodeValue.v ELSE << >>
    IN  JSObj([f \in DOMAIN own \cup {"id"} |->
                 IF f \in DOMAIN own THEN own[f] ELSE JSStr(key)])

\* The forEach of sanitizeNodesMap over the entries with the keys given.
\* sanitized[id] = sanitizedNode
WithNode(acc, node) ==
    [k \in DOMAIN acc \cup {node.id} |->
        IF k = node.id THEN node ELSE acc[k]]

RECURSIVE NodesFrom(_, _, _, _)
NodesAfter(entries, keys, acc, r) ==
    NodesFrom(entries, Tail(keys), WithNode(acc, r.node), r.next)

NodesFrom(entries, keys, acc, next) ==
    IF keys = <<>> THEN [nodes |-> acc, next |-> next]
    ELSE NodesAfter(entries, keys, acc,
                    sanitizeNode(SpreadOver(Head(keys), entries[Head(keys)]),
                                 next))

\* sanitizeNodesMap: threw, or the node map and the next generated id.  An
\* array has its indices as keys; the arrays passed here are empty.
sanitizeNodesMap(value, next) ==
    IF value.t \in {"undefined", "null"}
    THEN [threw |-> FALSE, nodes |-> << >>, next |-> next]
    ELSE IF ~TypeofObject(value)
    THEN [threw |-> TRUE, nodes |-> << >>, next |-> next]
    ELSE IF value.t = "array"
    THEN [threw |-> FALSE, nodes |-> << >>, next |-> next]
    ELSE [threw |-> FALSE] @@ NodesFrom(value.v, ObjectKeys(value.v), << >>,
                                        next)

\* createInitialSession, for the session fields of the model.
BaseSession ==
    [selectedNodeIds |-> <<>>, focusedNodeId |-> NULL,
     focusPath |-> <<NULL>>, historyEnabled |-> TRUE, rtl |-> DEFAULT_RTL]

sanitizeSession(value, ns) ==
    IF Falsy(value) \/ ~TypeofObject(value) THEN BaseSession
    ELSE [selectedNodeIds |->
              FilterKeys(sanitizeStringArray(Field(value, "selectedNodeIds")),
                         ns),
          focusedNodeId   |-> IF Field(value, "focusedNodeId").t = "string"
                              THEN Field(value, "focusedNodeId").v ELSE NULL,
          focusPath       |-> sanitizeStringArray(Field(value, "focusPath")),
          historyEnabled  |-> IF Field(value, "historyEnabled").t = "boolean"
                              THEN Field(value, "historyEnabled").v
                              ELSE TRUE,
          rtl             |-> IF Field(value, "rtl").t = "boolean"
                              THEN Field(value, "rtl").v ELSE DEFAULT_RTL]

\* sanitizeTemplates: the root ids of the templates kept.  An array has its
\* indices as keys; the arrays passed here are empty.
sanitizeTemplates(value) ==
    IF Falsy(value) \/ ~TypeofObject(value) \/ value.t # "object" THEN {}
    ELSE { Field(value.v[k], "rootNodeId").v :
             k \in { k \in DOMAIN value.v :
                       Field(value.v[k], "rootNodeId").t = "string" } }

\* The forEach of sanitizeSnapshots over the entries with the keys given:
\* threw (sanitizeNodesMap threw), or the registry and the next generated
\* id.  createdAt is a whole number in the documents of the model.
RECURSIVE SnapshotsFrom(_, _, _, _, _)
\* sanitized[id] = { ..., nodes, rootNodeIds, createdAt }
WithSnapshot(acc, snap) ==
    IF SnapshotAt(snap.id, acc) = 0 THEN Append(acc, snap)
    ELSE [acc EXCEPT ![SnapshotAt(snap.id, acc)] = snap]

SnapshotOf(key, value, ns, clock) ==
    Snapshot(IF Field(value, "id").t = "string"
             THEN Field(value, "id").v ELSE key,
             ns,
             FilterKeys(sanitizeStringArray(Field(value, "rootNodeIds")), ns),
             IF Field(value, "createdAt").t = "number"
             THEN Field(value, "createdAt").tenths \div 10
             ELSE clock)

SnapshotsAfter(entries, keys, acc, next, clock, ns) ==
    IF ns.threw
    THEN [threw |-> TRUE, snapshots |-> <<>>, next |-> next]
    ELSE SnapshotsFrom(entries, Tail(keys),
                       WithSnapshot(acc,
                                    SnapshotOf(Head(keys), entries[Head(keys)],
                                               ns.nodes, clock)),
                       ns.next, clock)

SnapshotSkipped(value) ==
    \/ Falsy(value) \/ ~TypeofObject(value)
    \/ Field(value, "sessionId").t # "string"

SnapshotsFrom(entries, keys, acc, next, clock) ==
    IF keys = <<>> THEN [threw |-> FALSE, snapshots |-> acc, next |-> next]
    ELSE IF SnapshotSkipped(entries[Head(keys)])
    THEN SnapshotsFrom(entries, Tail(keys), acc, next, clock)
    ELSE SnapshotsAfter(entries, keys, acc, next, clock,
                        sanitizeNodesMap(Field(entries[Head(keys)], "nodes"),
                                         next))

\* An array has its indices as keys; the arrays passed here are empty.
sanitizeSnapshots(value, next, clock) ==
    IF Falsy(value) \/ ~TypeofObject(value) \/ value.t # "object"
    THEN [threw |-> FALSE, snapshots |-> <<>>, next |-> next]
    ELSE SnapshotsFrom(value.v, ObjectKeys(value.v), <<>>, next, clock)

\* parseImportData(jsonData): threw, or the sanitized sections and the id
\* generateId returns next.
ParsedSections(parsed, ns, snaps) ==
    IF \/ ns.threw
       \/ Field(parsed, "rootNodeIds").t \notin {"undefined", "array"}
       \/ snaps.threw
    THEN [threw |-> TRUE]
    ELSE [threw       |-> FALSE,
          nodes       |-> ns.nodes,
          rootNodeIds |-> FilterKeys(
                              sanitizeStringArray(
                                  Field(parsed, "rootNodeIds")),
                              ns.nodes),
          session     |-> sanitizeSession(Field(parsed, "session"), ns.nodes),
          templates   |-> sanitizeTemplates(Field(parsed, "templates")),
          snapshots   |-> snaps.snapshots,
          next        |-> snaps.next]

ParsedNodes(parsed, ns, clock) ==
    ParsedSections(parsed, ns,
                   IF ns.threw THEN [threw |-> TRUE]
                   ELSE sanitizeSnapshots(Field(parsed, "snapshots"), ns.next,
                                          clock))

parseImportData(jsonData, next, clock) ==
    IF \/ ~jsonData.valid
       \/ Falsy(jsonData.root) \/ ~TypeofObject(jsonData.root)
    THEN [threw |-> TRUE]
    ELSE ParsedNodes(jsonData.root,
                     sanitizeNodesMap(Field(jsonData.root, "nodes"), next),
                     clock)

\* importData throws (after the error toast) exactly when parseImportData
\* does: the producer and saveHistory do not throw.
importDataThrows(jsonData) == parseImportData(jsonData, nextId, now).threw

\* The id generateId returns next is above every id in use.
FreshAbove(ns, next) ==
    IF DOMAIN ns = {} THEN next
    ELSE Max2(next, 1 + CHOOSE m \in DOMAIN ns : \A k \in DOMAIN ns : k <= m)

\* The producer of importData and the saveHistory after it.
ImportedHistory(parsed) ==
    saveHistory(parsed.nodes, parsed.rootNodeIds,
                parsed.session.historyEnabled, past, future)

\* importData whose producer leaves the templates alone.
AppliedKeepingTemplates(parsed) ==
    IF parsed.threw
    THEN UNCHANGED <<treeVars, sessionVars, histVars, nextId, callVars,
                     templates, snapVars, imports, rtl>>
    ELSE /\ imports' = imports + 1
         /\ Counted("importData", NULL, NULL)
         /\ nodes' = parsed.nodes
         /\ rootNodeIds' = parsed.rootNodeIds
         /\ selectedNodeIds' = parsed.session.selectedNodeIds
         /\ focusedNodeId' = parsed.session.focusedNodeId
         /\ focusPath' = parsed.session.focusPath
         /\ historyEnabled' = parsed.session.historyEnabled
         /\ rtl' = parsed.session.rtl
         /\ snapshots' = parsed.snapshots
         /\ past' = ImportedHistory(parsed).past
         /\ future' = ImportedHistory(parsed).future
         /\ nextId' = FreshAbove(parsed.nodes, parsed.next)
         /\ UNCHANGED <<templates, snapshotCalls, now>>

importDataKeepsTemplates(jsonData) ==
    AppliedKeepingTemplates(parseImportData(jsonData, nextId, now))

Applied(parsed) ==
    IF parsed.threw
    THEN UNCHANGED <<treeVars, sessionVars, histVars, nextId, callVars,
                     templates, snapVars, imports, rtl>>
    ELSE /\ imports' = imports + 1
         /\ Counted("importData", NULL, NULL)
         /\ nodes' = parsed.nodes
         /\ rootNodeIds' = parsed.rootNodeIds
         /\ selectedNodeIds' = parsed.session.selectedNodeIds
         /\ focusedNodeId' = parsed.session.focusedNodeId
         /\ focusPath' = parsed.session.focusPath
         /\ historyEnabled' = parsed.session.historyEnabled
         /\ rtl' = parsed.session.rtl
         /\ templates' = parsed.templates
         /\ snapshots' = parsed.snapshots
         /\ past' = ImportedHistory(parsed).past
         /\ future' = ImportedHistory(parsed).future
         /\ nextId' = FreshAbove(parsed.nodes, parsed.next)
         /\ UNCHANGED <<snapshotCalls, now>>

importData(jsonData) == Applied(parseImportData(jsonData, nextId, now))

----------------------------------------------------------------------------
(* The documents handed to importData.                                     *)

\* Text that JSON.parse rejects, and text that parses to root.
BadText == [valid |-> FALSE, root |-> Undefined]
Text(root) == [valid |-> TRUE, root |-> root]

\* The text of an object with the five sections; a section that is
\* Undefined is one the text does not have.
Document(ns, roots, session, tpls, snaps) ==
    Text(JSObj([nodes |-> ns, rootNodeIds |-> roots, session |-> session,
                templates |-> tpls, snapshots |-> snaps]))

NodeValue(parentId, childrenIds, level, title, isCollapsed) ==
    JSObj([parentId |-> parentId, childrenIds |-> childrenIds,
           level |-> level, title |-> title, isCollapsed |-> isCollapsed])

\* A well-formed root node without children.
PlainNode == NodeValue(JSNull, JSArr(<<>>), JSNum(0), JSStr("a"), JSBool(FALSE))

\* Documents that the import has to reject according to the format: text
\* that is not JSON, a root that is no object, a nodes section that is no
\* object, a rootNodeIds section that is no array.
RejectedDocuments ==
    {BadText}
    \cup { Text(root) : root \in {JSNum(10), JSStr("a"), JSBool(TRUE),
                                   JSBool(FALSE), JSNull, JSArr(<<>>)} }
    \cup { Document(ns, Undefined, Undefined, Undefined, Undefined) :
             ns \in {JSNum(10), JSStr("a"), JSBool(TRUE), JSArr(<<>>)} }
    \cup { Document(JSObj(1 :> PlainNode), roots, Undefined, Undefined,
                    Undefined) :
             roots \in {JSStr("a"), JSNum(10), JSObj(<< >>), JSNull} }

\* Values of the level, title and isCollapsed fields of a node.
RawLevels ==
    {JSNum(0), JSNum(10), JSNum(15), JSNum(-5), JSNum(-20),
     JSNum(10 * (MAX_DEPTH - 1)), JSNum(10 * MAX_DEPTH - 5),
     JSNum(10 * MAX_DEPTH), JSNum(10 * MAX_DEPTH + 25),
     JSInfinity, JSStr("a"), JSNull, Undefined}
RawTitles == {JSStr("a"), JSNum(10), Undefined}
RawFlags == {JSBool(TRUE), JSBool(FALSE), JSStr("a"), Undefined}

\* One root node, its scalar fields varied.
FieldDocuments ==
    { Document(JSObj(1 :> NodeValue(JSNull, JSArr(<<>>), level, title, flag)),
               JSArr(<<JSStr(1)>>), Undefined, Undefined, Undefined) :
        level \in RawLevels, title \in RawTitles, flag \in RawFlags }

\* One or two nodes, their links and levels varied: parents and children
\* that exist, that are missing from the node map, or that are no strings.
FirstNodes ==
    { NodeValue(parentId, childrenIds, level, JSStr("a"), JSBool(FALSE)) :
        parentId \in {JSNull, JSStr(2), JSStr(Ghost)},
        childrenIds \in {JSArr(<<>>), JSArr(<<JSStr(2)>>),
                         JSArr(<<JSStr(Ghost), JSNum(10)>>)},
        level \in {JSNum(0), JSNum(10)} }
SecondNodes ==
    { NodeValue(parentId, childrenIds, level, JSStr("a"), JSBool(FALSE)) :
        parentId \in {JSNull, JSStr(1)},
        childrenIds \in {JSArr(<<>>), JSArr(<<JSStr(1)>>)},
        level \in {JSNum(0), JSNum(10)} }
RawRoots ==
    {JSArr(<<JSStr(1)>>), JSArr(<<JSStr(Ghost), JSStr(2), JSNum(10), JSStr(1)>>)}

TreeDocuments ==
    { Document(JSObj(1 :> first), roots, Undefined, Undefined, Undefined) :
        first \in FirstNodes, roots \in RawRoots }
    \cup { Document(JSObj(1 :> first @@ 2 :> second), roots, Undefined,
                    Undefined, Undefined) :
             first \in FirstNodes, second \in SecondNodes, roots \in RawRoots }

\* Entries of the node map whose value is no object, or carries an id of
\* its own.
KeyDocuments ==
    { Document(JSObj(1 :> first @@ 2 :> PlainNode),
               JSArr(<<JSStr(1), JSStr(2)>>), Undefined, Undefined,
               Undefined) :
        first \in {JSNum(10), JSNull, JSObj(<< >>), JSObj([id |-> JSNum(10)]),
                   JSObj([id |-> JSStr(2)])} }

\* A tree of a root with one child.
PairOfNodes ==
    JSObj(1 :> NodeValue(JSNull, JSArr(<<JSStr(2)>>), JSNum(0), JSStr("a"),
                         JSBool(FALSE))
          @@ 2 :> NodeValue(JSStr(1), JSArr(<<>>), JSNum(10), JSStr("a"),
                            JSBool(FALSE)))

\* Session sections: ids that exist, ids that do not, fields of the wrong
\* type, and a session that is no object.
RawSessions ==
    { JSObj([selectedNodeIds |-> selected, focusedNodeId |-> focused,
             focusPath |-> path, historyEnabled |-> enabled]) :
        selected \in {JSArr(<<JSStr(2), JSStr(Ghost), JSNum(10)>>), JSStr("a")},
        focused \in {JSStr(2), JSStr(Ghost), JSNum(10)},
        path \in {JSArr(<<JSStr(1), JSStr(2)>>), JSArr(<<JSStr(Ghost)>>),
                  Undefined},
        enabled \in {JSBool(FALSE), JSBool(TRUE), Undefined} }
    \cup {JSNum(10), JSNull, JSArr(<<>>)}

SessionDocuments ==
    { Document(PairOfNodes, JSArr(<<JSStr(1)>>), session, Undefined,
               Undefined) : session \in RawSessions }

\* The documents on which the sanitize functions are examined.
ParseDocuments ==
    RejectedDocuments \cup FieldDocuments \cup TreeDocuments
    \cup KeyDocuments \cup SessionDocuments

\* Template and snapshot sections: an entry that is kept and one that is
\* dropped for the field it lacks.
RawTemplates ==
    JSObj(1 :> JSObj([rootNodeId |-> JSStr(1)]) @@ 2 :> JSObj(<< >>))
RawSnapshots ==
    JSObj(1 :> JSObj([sessionId |-> JSStr("a"), nodes |-> PairOfNodes,
                      rootNodeIds |-> JSArr(<<JSStr(1), JSStr(Ghost)>>),
                      createdAt |-> JSNum(10)])
          @@ 2 :> JSObj([nodes |-> PairOfNodes]))

\* Documents that the import accepts: without any section, with a tree
\* only, and with every section, history switched on, off or not named.
AcceptedDocuments ==
    {Text(JSObj(<< >>)),
     Document(PairOfNodes, JSArr(<<JSStr(1)>>), Undefined, Undefined,
              Undefined)}
    \cup { Document(PairOfNodes, JSArr(<<JSStr(1)>>),
                    JSObj([selectedNodeIds |-> JSArr(<<JSStr(2)>>),
                           focusedNodeId |-> JSStr(2),
                           focusPath |-> JSArr(<<JSStr(1), JSStr(2)>>),
                           historyEnabled |-> enabled]),
                    RawTemplates, RawSnapshots) :
             enabled \in {JSBool(FALSE), JSBool(TRUE), Undefined} }

\* What a specification that records the arguments of the calls freezes.
NoStoreTracking == UNCHANGED <<threw, tripVars, templates, snapVars, imports>>
NoOtherTracking == NoStoreTracking /\ UNCHANGED hookVars

\* The arguments of a selection call and the selection it found.
SelectionInput(op, id, multi) ==
    [op |-> op, id |-> id, multi |-> multi, selected |-> selectedNodeIds]

\* Node creation and deletion with the selection calls, each call recorded
\* with its arguments.
NextSelection ==
    \/ (\E p \in DOMAIN nodes \cup {NULL}, t \in Titles : createNode(p, t))
           /\ lastInput' = SelectionInput("createNode", NULL, FALSE)
           /\ NoOtherTracking
    \/ (\E id \in TreeIds :
           deleteNode(id) /\ lastInput' = SelectionInput("deleteNode", id, FALSE))
           /\ NoOtherTracking
    \/ (\E id \in TreeIds, multi \in BOOLEAN :
           selectNode(id, multi)
           /\ lastInput' = SelectionInput("selectNode", id, multi))
           /\ NoOtherTracking
    \/ (\E id \in TreeIds :
           deselectNode(id)
           /\ lastInput' = SelectionInput("deselectNode", id, FALSE))
           /\ NoOtherTracking
    \/ clearSelection /\ lastInput' = SelectionInput("clearSelection", NULL, FALSE)
           /\ NoOtherTracking
    \/ selectAll /\ lastInput' = SelectionInput("selectAll", NULL, FALSE)
           /\ NoOtherTracking

SpecSelection == Init /\ [][NextSelection]_vars

\* The argument of an importData call, and the redo stack, templates and
\* snapshots the call found.
ImportInput(jsonData) ==
    [op |-> "importData", jsonData |-> jsonData, future |-> future,
     templates |-> templates, snapshots |-> snapshots]

\* importData on the documents of ParseDocuments, applied to the initial
\* store until one of them is accepted.
NextParse ==
    \E jsonData \in ParseDocuments :
        /\ imports = 0
        /\ importData(jsonData)
        /\ threw' = importDataThrows(jsonData)
        /\ lastInput' = ImportInput(jsonData)
        /\ UNCHANGED <<tripVars, saveVars>>

SpecParse == Init /\ [][NextParse]_vars

\* The arguments of a call that is not examined.
NoInput == [op |-> "none"]

\* A store in use (nodes created at the root, one undo, one selection, one
\* template, one snapshot) into which a document is then imported.
NextImport ==
    \/ /\ imports = 0
       /\ \E t \in Titles : createNode(NULL, t)
       /\ threw' = FALSE /\ lastInput' = NoInput
       /\ UNCHANGED <<tripVars, hookVars, templates, snapVars, imports>>
    \/ /\ imports = 0 /\ future = <<>>
       /\ undo
       /\ threw' = FALSE /\ lastInput' = NoInput
       /\ UNCHANGED <<tripVars, hookVars, templates, snapVars, imports>>
    \/ /\ imports = 0 /\ selectedNodeIds = <<>>
       /\ selectAll
       /\ threw' = FALSE /\ lastInput' = NoInput
       /\ UNCHANGED <<tripVars, hookVars, templates, snapVars, imports>>
    \/ /\ imports = 0 /\ templates = {}
       /\ \E id \in DOMAIN nodes : createTemplate(id)
       /\ threw' = FALSE /\ lastInput' = NoInput
       /\ UNCHANGED <<tripVars, hookVars, snapVars, imports>>
    \/ /\ imports = 0 /\ snapshots = <<>>
       /\ createSnapshot(0)
       /\ threw' = FALSE /\ lastInput' = NoInput
       /\ UNCHANGED <<tripVars, hookVars>>
    \/ \E jsonData \in AcceptedDocuments :
           /\ imports = 0
           /\ importData(jsonData)
           /\ threw' = importDataThrows(jsonData)
           /\ lastInput' = ImportInput(jsonData)
           /\ UNCHANGED <<tripVars, saveVars>>

SpecImport == Init /\ [][NextImport]_vars

\* The arguments of a zoom call, and for zoomOut the depth of the node last
\* zoomed in on and how many zoomOut calls were made in a row since.
ZoomInput(op, id, zoomed, depth, outs) ==
    [op |-> op, id |-> id, zoomed |-> zoomed, depth |-> depth, outs |-> outs]

ZoomedOf(input) == "zoomed" \in DOMAIN input /\ input.zoomed

\* Node creation (also under an id that is no key) and deletion with the
\* zoom calls, each call recorded with its arguments.
NextZoom ==
    \/ (\E p \in TreeIds \cup {NULL}, t \in Titles : createNode(p, t))
           /\ lastInput' = ZoomInput("createNode", NULL, FALSE, 0, 0)
           /\ NoOtherTracking
    \/ (\E id \in TreeIds : deleteNode(id))
           /\ lastInput' = ZoomInput("deleteNode", NULL, FALSE, 0, 0)
           /\ NoOtherTracking
    \/ (\E id \in TreeIds :
           /\ zoomIn(id)
           /\ lastInput' = ZoomInput("zoomIn", id, Has(nodes, id),
                                      getNodeDepth(id, nodes), 0))
           /\ NoOtherTracking
    \/ /\ zoomOut
       /\ lastInput' = ZoomInput("zoomOut", NULL, ZoomedOf(lastInput),
                                  IF ZoomedOf(lastInput)
                                  THEN lastInput.depth ELSE 0,
                                  IF ZoomedOf(lastInput)
                                  THEN lastInput.outs + 1 ELSE 0)
       /\ NoOtherTracking

SpecZoom == Init /\ [][NextZoom]_vars

----------------------------------------------------------------------------
(* Export and the auto-save hook                                           *)

\* JSON.stringify of a node followed by JSON.parse: the fields the node
\* has, a parentId of null staying null.
ExportedNode(node) ==
    JSObj([k \in DOMAIN node |->
             CASE k \in {"id", "title"} -> JSStr(node[k])
               [] k = "parentId" -> IF node[k] = NULL THEN JSNull
                                    ELSE JSStr(node[k])
               [] k = "childrenIds" ->
                    JSArr([i \in DOMAIN node[k] |-> JSStr(node[k][i])])
               [] k = "level" -> JSNum(10 * node[k])
               [] OTHER -> JSBool(node[k])])

ExportedNodes(ns) == JSObj([k \in DOMAIN ns |-> ExportedNode(ns[k])])

ExportedIds(ids) == JSArr([i \in DOMAIN ids |-> JSStr(ids[i])])

\* The session fields of the model; JSON.stringify leaves out a field that
\* is undefined.
ExportedSession ==
    JSObj([selectedNodeIds |-> ExportedIds(selectedNodeIds),
           historyEnabled |-> JSBool(historyEnabled),
           rtl |-> JSBool(rtl)]
          @@ (IF focusedNodeId = NULL THEN << >>
              ELSE [focusedNodeId |-> JSStr(focusedNodeId)])
          @@ (IF focusPath = <<NULL>> THEN << >>
              ELSE [focusPath |-> ExportedIds(focusPath)]))

ExportedTemplates ==
    JSObj([k \in templates |-> JSObj([rootNodeId |-> JSStr(k)])])

\* The snapshot registry, keyed by snapshot id.
ExportedSnapshots ==
    JSObj([k \in { snapshots[i].id : i \in DOMAIN snapshots } |->
             LET snap == snapshots[SnapshotAt(k, snapshots)]
             IN  JSObj([id |-> JSStr(snap.id), sessionId |-> JSStr("a"),
                        nodes |-> ExportedNodes(snap.nodes),
                        rootNodeIds |-> ExportedIds(snap.rootNodeIds),
                        createdAt |-> JSNum(10 * snap.createdAt)])])

\* exportData: the text of the five sections of the store.
exportData ==
    Document(ExportedNodes(nodes), ExportedIds(rootNodeIds), ExportedSession,
             ExportedTemplates, ExportedSnapshots)

\* setRTL
setRTL(value) ==
    /\ rtl' = value
    /\ UNCHANGED <<treeVars, sessionVars, histVars, nextId, callVars>>

\* scheduleSave, the listener the effect subscribes: run after a call that
\* put a new state in the store, not after one that left the state as it
\* was.  It clears the timer in timeoutRef and arms a new one.
StoreChanged ==
    <<nodes, rootNodeIds, sessionVars, past, future, rtl>>'
        # <<nodes, rootNodeIds, sessionVars, past, future, rtl>>

scheduleSave ==
    IF StoreChanged
    THEN /\ hasPendingChanges' = TRUE
         /\ timeoutRef' = AUTO_SAVE_INTERVAL
         /\ sinceChange' = 0
         /\ writes' = 0
    ELSE UNCHANGED <<hasPendingChanges, timeoutRef, sinceChange, writes>>

\* The effect of useAutoSave has the dependencies [addToast, rtl]: after a
\* store change that altered rtl the component renders again, the cleanup of
\* the effect in place clears the timer in timeoutRef and unsubscribes, and
\* the effect runs again and subscribes a new scheduleSave.
EffectCleanup ==
    /\ effectRtl # rtl
    /\ timeoutRef' = -1
    /\ effectRtl' = rtl
    /\ UNCHANGED <<hasPendingChanges, storage, sinceChange, writes, rtl>>

\* The callback of the timer, run when the interval has passed; the write
\* to localStorage is taken to succeed.
SaveTimeout ==
    /\ effectRtl = rtl
    /\ timeoutRef = 0
    /\ storage' = exportData
    /\ hasPendingChanges' = FALSE
    /\ timeoutRef' = -1
    /\ writes' = writes + 1
    /\ UNCHANGED <<rtl, effectRtl, sinceChange>>

\* One tick of time passes: no timer is due and no render is outstanding.
\* The time since the last change is counted up to one tick past the
\* interval.
Tick ==
    /\ effectRtl = rtl
    /\ timeoutRef # 0
    /\ sinceChange \in 0..AUTO_SAVE_INTERVAL
    /\ sinceChange' = sinceChange + 1
    /\ timeoutRef' = IF timeoutRef > 0 THEN timeoutRef - 1 ELSE timeoutRef
    /\ UNCHANGED <<rtl, effectRtl, hasPendingChanges, storage, writes>>

HookFrame ==
    UNCHANGED <<treeVars, sessionVars, histVars, nextId, callVars, threw,
                tripVars, templates, snapVars, imports>>

\* The store with useAutoSave mounted: store calls, each followed by the
\* listener, the render after a change of rtl, the passing of time and the
\* timer.
NextAutoSave ==
    \/ /\ effectRtl = rtl
       /\ \E t \in Titles : createNode(NULL, t)
       /\ UNCHANGED <<rtl, effectRtl, storage>>
       /\ scheduleSave
       /\ lastInput' = [op |-> "createNode"]
       /\ NoStoreTracking
    \/ /\ effectRtl = rtl
       /\ \E value \in BOOLEAN : setRTL(value)
       /\ scheduleSave
       /\ lastInput' = [op |-> "setRTL"]
       /\ UNCHANGED <<effectRtl, storage>>
       /\ NoStoreTracking
    \/ EffectCleanup /\ lastInput' = [op |-> "render"] /\ HookFrame
    \/ SaveTimeout /\ lastInput' = [op |-> "timeout"] /\ HookFrame
    \/ Tick /\ lastInput' = [op |-> "tick"] /\ HookFrame

SpecAutoSave == Init /\ [][NextAutoSave]_vars

\* The store as a call finds it, and the record of a history call: the
\* call, the store it found, and the history call made right before it with
\* the store that one found.
StoreState ==
    [nodes |-> nodes, rootNodeIds |-> rootNodeIds, past |-> past,
     future |-> future, session |-> sessionVars, rtl |-> rtl,
     templates |-> templates, snapshots |-> snapshots]

HistoryInput(op) ==
    [op |-> op, before |-> StoreState,
     prior |-> IF lastInput.op \in {"undo", "redo"}
               THEN [op |-> lastInput.op, before |-> lastInput.before]
               ELSE [op |-> "none"]]

\* Node creation and deletion with undo and redo in any order, the history
\* calls recorded.
NextHistoryPairs ==
    \/ (\E p \in DOMAIN nodes \cup {NULL}, t \in Titles : createNode(p, t))
           /\ lastInput' = [op |-> "createNode"] /\ NoOtherTracking
    \/ (\E id \in DOMAIN nodes : deleteNode(id))
           /\ lastInput' = [op |-> "deleteNode"] /\ NoOtherTracking
    \/ undo /\ lastInput' = HistoryInput("undo") /\ NoOtherTracking
    \/ redo /\ lastInput' = HistoryInput("redo") /\ NoOtherTracking

SpecHistoryPairs == Init /\ [][NextHistoryPairs]_vars

\* Partial nodes handed to updateNode: content fields, and each of the
\* fields that make the structure of the tree.
Updates ==
    {[title |-> "b"], [isDone |-> TRUE], [title |-> "b", isCollapsed |-> TRUE],
     [id |-> Ghost], [parentId |-> NULL], [parentId |-> 1],
     [childrenIds |-> <<>>], [childrenIds |-> <<1>>], [level |-> 0],
     [level |-> 1], [title |-> "b", parentId |-> Ghost]}

\* Node creation, and then one updateNode with any of these partial nodes,
\* the arguments of the call recorded.
NextUpdate ==
    \/ /\ lastInput.op # "updateNode"
       /\ \E p \in DOMAIN nodes \cup {NULL}, t \in Titles : createNode(p, t)
       /\ lastInput' = [op |-> "createNode"]
       /\ NoOtherTracking
    \/ \E id \in TreeIds, updates \in Updates :
           /\ lastInput.op # "updateNode"
           /\ updateNode(id, updates)
           /\ lastInput' = [op |-> "updateNode", id |-> id,
                            updates |-> updates]
           /\ NoOtherTracking

SpecUpdate == Init /\ [][NextUpdate]_vars

\* The calls that make and edit a tree, select a node and walk the history
\* (moves to the top level or under the first node, one updateNode of the
\* first node, one selection),
\* and then importData of what exportData returns, recorded with the store
\* it was made on.
NextExport ==
    \/ /\ imports = 0
       /\ \E p \in DOMAIN nodes \cup {NULL}, t \in Titles : createNode(p, t)
       /\ lastInput' = NoInput /\ threw' = FALSE
       /\ UNCHANGED <<tripVars, hookVars, templates, snapVars, imports>>
    \/ /\ imports = 0
       /\ \E id \in DOMAIN nodes : deleteNode(id)
       /\ lastInput' = NoInput /\ threw' = FALSE
       /\ UNCHANGED <<tripVars, hookVars, templates, snapVars, imports>>
    \/ /\ imports = 0
       /\ \E id \in DOMAIN nodes,
             parent \in (DOMAIN nodes \cap {1}) \cup {NULL} :
              /\ moveNode(id, parent, <<>>)
              /\ threw' = moveNodeThrows(id, parent)
       /\ lastInput' = NoInput
       /\ UNCHANGED <<tripVars, hookVars, templates, snapVars, imports>>
    \/ /\ imports = 0
       /\ \E id \in DOMAIN nodes : duplicateNode(id)
       /\ lastInput' = NoInput /\ threw' = FALSE
       /\ UNCHANGED <<tripVars, hookVars, templates, snapVars, imports>>
    \/ /\ imports = 0
       /\ \E id \in DOMAIN nodes \cap {1},
             updates \in {[title |-> "b"], [isDone |-> TRUE]} :
              /\ nodes[id].title \in Titles /\ ~Truthy(nodes[id], "isDone")
              /\ updateNode(id, updates)
       /\ lastInput' = NoInput /\ threw' = FALSE
       /\ UNCHANGED <<tripVars, hookVars, templates, snapVars, imports>>
    \/ /\ imports = 0 /\ sessionCalls = 0
       /\ \E id \in DOMAIN nodes, multi \in BOOLEAN : selectNode(id, multi)
       /\ lastInput' = NoInput /\ threw' = FALSE
       /\ UNCHANGED <<tripVars, hookVars, templates, snapVars, imports>>
    \/ /\ imports = 0
       /\ undo
       /\ lastInput' = NoInput /\ threw' = FALSE
       /\ UNCHANGED <<tripVars, hookVars, templates, snapVars, imports>>
    \/ /\ imports = 0
       /\ redo
       /\ lastInput' = NoInput /\ threw' = FALSE
       /\ UNCHANGED <<tripVars, hookVars, templates, snapVars, imports>>
    \/ /\ imports = 0
       /\ importData(exportData)
       /\ threw' = importDataThrows(exportData)
       /\ lastInput' = [op |-> "importData", before |-> StoreState]
       /\ UNCHANGED <<tripVars, saveVars>>

SpecExport == Init /\ [][NextExport]_vars

\* A document whose snapshot section holds MAX_SNAPSHOTS snapshots, with a
\* createdAt later than the clock of any createSnapshot call of the model
\* reads.
LaterSnapshotDocument ==
    Document(PairOfNodes, JSArr(<<JSStr(1)>>), Undefined, Undefined,
             JSObj([k \in 1..MAX_SNAPSHOTS |->
                      JSObj([sessionId |-> JSStr("a"),
                             nodes |-> PairOfNodes,
                             rootNodeIds |-> JSArr(<<JSStr(1)>>),
                             createdAt |->
                                 JSNum(10 * (MaxSnapshotCalls + 1))])]))

\* Snapshots taken of a growing tree, in the same millisecond as the one
\* before or a later one, with at most one import of snapshots; the call
\* is recorded with the id of the snapshot it makes and the registry it
\* found.
NextSnapshotLimit ==
    \/ (\E t \in Titles : createNode(NULL, t))
           /\ lastInput' = NoInput
           /\ UNCHANGED <<threw, tripVars, hookVars, templates, snapVars,
                          imports>>
    \/ \E tick \in {0, 1} :
           /\ createSnapshot(tick)
           /\ lastInput' = [op |-> "createSnapshot",
                            id |-> MaxNodes + snapshotCalls + 1,
                            before |-> snapshots]
           /\ UNCHANGED <<threw, tripVars, hookVars>>
    \/ /\ imports = 0
       /\ importData(LaterSnapshotDocument)
       /\ threw' = importDataThrows(LaterSnapshotDocument)
       /\ lastInput' = NoInput
       /\ UNCHANGED <<tripVars, saveVars>>

SpecSnapshotLimit == Init /\ [][NextSnapshotLimit]_vars

\* The arguments of a field update or presentation call, and how many of
\* them were made so far.
ViewCallsOf(input) == IF "views" \in DOMAIN input THEN input.views ELSE 0

ViewInput(op) ==
    /\ ViewCallsOf(lastInput) < MaxViewCalls
    /\ lastInput' = [op |-> op, views |-> ViewCallsOf(lastInput) + 1]

OtherInput(op) ==
    lastInput' = [op |-> op, views |-> ViewCallsOf(lastInput)]

ViewFrame == UNCHANGED <<threw, tripVars, hookVars, templates, snapVars, imports>>

\* Ids passed to the field updates and toggles: the first node created,
\* while it is in the map, and one id that is not a key.
ViewIds == (DOMAIN nodes \cap {1}) \cup {Ghost}

\* Levels passed to collapseToLevel.
ViewLevels == {0, 1}

\* Field updates and presentation calls after creations and one undo.
NextView ==
    \/ /\ ViewCallsOf(lastInput) = 0
       /\ \E p \in DOMAIN nodes \cup {NULL}, t \in Titles : createNode(p, t)
       /\ OtherInput("createNode") /\ ViewFrame
    \/ /\ ViewCallsOf(lastInput) = 0 /\ future = <<>>
       /\ undo /\ OtherInput("undo") /\ ViewFrame
    \/ (\E id \in ViewIds, t \in UpdatedTitles :
           updateNode(id, [title |-> t]))
           /\ ViewInput("updateNode") /\ ViewFrame
    \/ (\E id \in ViewIds : toggleCollapse(id))
           /\ ViewInput("toggleCollapse") /\ ViewFrame
    \/ (\E id \in ViewIds : toggleDone(id))
           /\ ViewInput("toggleDone") /\ ViewFrame
    \/ (\E id \in ViewIds : togglePin(id))
           /\ ViewInput("togglePin") /\ ViewFrame
    \/ collapseAll /\ ViewInput("collapseAll") /\ ViewFrame
    \/ expandAll /\ ViewInput("expandAll") /\ ViewFrame
    \/ (\E level \in ViewLevels : collapseToLevel(level))
           /\ ViewInput("collapseToLevel") /\ ViewFrame

SpecView == Init /\ [][NextView]_vars

\* The arguments of one structural call.
TwinCallOf(op, id, parent, position, title) ==
    [op |-> op, id |-> id, parent |-> parent, position |-> position,
     title |-> title]

TwinCalls ==
    {TwinCallOf("createNode", NULL, p, <<>>, t) :
        p \in TreeIds \cup {NULL}, t \in Titles}
    \cup {TwinCallOf("deleteNode", id, NULL, <<>>, "") : id \in TreeIds}
    \cup {TwinCallOf("moveNode", x[1], x[2], x[3], "") :
            x \in TreeIds \X (TreeIds \cup {NULL}) \X Positions}
    \cup {TwinCallOf("duplicateNode", id, NULL, <<>>, "") : id \in TreeIds}

TwinCall(c) ==
    \/ c.op = "createNode" /\ createNode(c.parent, c.title)
    \/ c.op = "deleteNode" /\ deleteNode(c.id)
    \/ c.op = "moveNode" /\ moveNode(c.id, c.parent, c.position)
    \/ c.op = "duplicateNode" /\ duplicateNode(c.id)

TwinFrame == UNCHANGED <<threw, tripVars, hookVars, templates, snapVars, imports>>

\* One structural call made twice on the same tree: with history disabled
\* by updateSession, then, after undo has brought the tree back and
\* updateSession has switched history on again, with history enabled.
NextFlagTwin ==
    \/ /\ lastInput.op = "none"
       /\ \E p \in DOMAIN nodes \cup {NULL}, t \in Titles : createNode(p, t)
       /\ UNCHANGED lastInput /\ TwinFrame
    \/ /\ lastInput.op = "none"
       /\ updateSession([historyEnabled |-> FALSE])
       /\ lastInput' = [op |-> "off"]
       /\ TwinFrame
    \/ /\ lastInput.op = "off"
       /\ \E c \in TwinCalls :
             /\ TwinCall(c)
             /\ lastInput' = [op     |-> "disabled",
                              call   |-> c,
                              before |-> Entry(nodes, rootNodeIds),
                              fresh  |-> nextId,
                              after  |-> Entry(nodes', rootNodeIds')]
       /\ TwinFrame
    \/ /\ lastInput.op = "disabled"
       /\ Entry(nodes, rootNodeIds) # lastInput.before
       /\ undo /\ UNCHANGED lastInput /\ TwinFrame
    \/ /\ lastInput.op = "disabled"
       /\ Entry(nodes, rootNodeIds) = lastInput.before
       /\ updateSession([historyEnabled |-> TRUE])
       /\ lastInput' = [lastInput EXCEPT !.op = "rewound"]
       /\ TwinFrame
    \/ /\ lastInput.op = "rewound"
       /\ TwinCall(lastInput.call)
       /\ lastInput' = [lastInput EXCEPT !.op = "enabled"]
       /\ TwinFrame

SpecFlagTwin == Init /\ [][NextFlagTwin]_vars

\* The trees that were live when the snapshots were made, by snapshot id,
\* as the caller noted them down.
TakenOf(input) == IF "taken" \in DOMAIN input THEN input.taken ELSE << >>

SnapshotInput(op, id, taken) == [op |-> op, id |-> id, taken |-> taken]

Noted(op, id) == lastInput' = SnapshotInput(op, id, TakenOf(lastInput))

\* Ids passed to restoreSnapshot: those of the snapshots made so far, in the
\* registry or no longer, and one that was never handed out.
SnapshotIds == (MaxNodes + 1)..(MaxNodes + snapshotCalls + 1)

SnapshotFrame == UNCHANGED <<threw, tripVars, hookVars, templates, snapVars, imports>>

\* One snapshot made and restored between mutations of the tree (nodes move
\* to the top level, the title updates are those of the first node, undo is
\* not repeated), in a
\* session that has history switched on or off from the start.
NextSnapshots ==
    \/ (\E p \in DOMAIN nodes \cup {NULL}, t \in Titles : createNode(p, t))
           /\ Noted("mutation", NULL) /\ SnapshotFrame
    \/ (\E id \in DOMAIN nodes : deleteNode(id))
           /\ Noted("mutation", NULL) /\ SnapshotFrame
    \/ (\E id \in DOMAIN nodes : moveNode(id, NULL, <<>>))
           /\ Noted("mutation", NULL) /\ SnapshotFrame
    \/ (\E t \in UpdatedTitles : updateNode(1, [title |-> t]))
           /\ Noted("mutation", NULL) /\ SnapshotFrame
    \/ /\ future = <<>>
       /\ undo /\ Noted("mutation", NULL) /\ SnapshotFrame
    \/ /\ calls = 0 /\ snapshotCalls = 0
       /\ updateSession([historyEnabled |-> FALSE])
       /\ Noted("updateSession", NULL) /\ SnapshotFrame
    \/ /\ snapshotCalls = 0
       /\ createSnapshot(1)
       /\ lastInput' =
              SnapshotInput("createSnapshot", MaxNodes + snapshotCalls + 1,
                            (MaxNodes + snapshotCalls + 1
                                 :> Entry(nodes, rootNodeIds))
                            @@ TakenOf(lastInput))
       /\ UNCHANGED <<threw, tripVars, hookVars>>
    \/ (\E id \in SnapshotIds :
           restoreSnapshot(id) /\ Noted("restoreSnapshot", id))
           /\ UNCHANGED <<threw, tripVars, hookVars>>

SpecSnapshots == Init /\ [][NextSnapshots]_vars

\* The tree operations alone: the store driven only by createNode, deleteNode,
\* moveNode and duplicateNode, with every id argument present or absent.
NextTrees == Mutation /\ NoErrorTracking

SpecTrees == Init /\ [][NextTrees]_vars

Spec == Init /\ [][Next]_vars

----------------------------------------------------------------------------
(* Properties                                                              *)

\* Ids generated so far that are no longer keys of the node map.
DeletedIds == (1..(nextId - 1)) \ DOMAIN nodes

\* C1: after any sequence of createNode, deleteNode, moveNode, duplicateNode,
\* undo and redo, every node's level equals getNodeDepth of its id and lies
\* in 0 .. MAX_DEPTH-1.
C1_LevelIsDepth ==
    \A id \in DOMAIN nodes :
        /\ nodes[id].level = getNodeDepth(id, nodes)
        /\ nodes[id].level >= 0
        /\ nodes[id].level <= MAX_DEPTH - 1

\* A subtree with a child has just been moved below another node, so that
\* its descendants were re-levelled, and the tree reaches the deepest level.
C1_Witness ==
    /\ lastCall.op = "moveNode"
    /\ Has(nodes, lastCall.id)
    /\ nodes[lastCall.id].level = 1
    /\ nodes[lastCall.id].childrenIds # <<>>
    /\ \E id \in DOMAIN nodes : nodes[id].level = MAX_DEPTH - 1

\* C2: every node with a non-null parentId has that parent in the node map,
\* and the parent's childrenIds lists the node exactly once - whatever
\* arguments the calls were given.
C2_ParentLinks ==
    \A id \in DOMAIN nodes :
        nodes[id].parentId # NULL =>
            /\ Has(nodes, nodes[id].parentId)
            /\ Count(nodes[nodes[id].parentId].childrenIds, id) = 1

\* C3: every node with parentId null is in rootNodeIds exactly once, and
\* rootNodeIds has no duplicate and no id that is missing from the node map.
C3_Roots ==
    /\ \A id \in DOMAIN nodes :
           nodes[id].parentId = NULL => Count(rootNodeIds, id) = 1
    /\ \A i \in DOMAIN rootNodeIds :
           /\ Has(nodes, rootNodeIds[i])
           /\ Count(rootNodeIds, rootNodeIds[i]) = 1

\* A root has just been duplicated after another node was deleted: the
\* root list was both shortened and extended.
C3_Witness ==
    /\ lastCall.op = "duplicateNode"
    /\ Includes(rootNodeIds, lastCall.id)
    /\ Has(nodes, lastCall.id) /\ nodes[lastCall.id].parentId = NULL
    /\ DeletedIds # {}

\* Following parentId from cur reaches a node whose parentId is null in at
\* most fuel steps, without visiting a node twice.
RECURSIVE EndsAtRoot(_, _, _)
EndsAtRoot(cur, fuel, visited) ==
    /\ Has(nodes, cur)
    /\ cur \notin visited
    /\ \/ nodes[cur].parentId = NULL
       \/ /\ fuel > 0
          /\ EndsAtRoot(nodes[cur].parentId, fuel - 1, visited \cup {cur})

\* C4: following parentId from any node ends at a node with parentId null
\* within MAX_DEPTH steps without visiting any node twice.
C4_ChainEndsAtRoot ==
    \A id \in DOMAIN nodes : EndsAtRoot(id, MAX_DEPTH, {})

\* The tree of the store as one value.
Tree == Entry(nodes, rootNodeIds)

\* C5: with history enabled and n <= MAX_HISTORY_ITEMS, n undo calls after
\* the mutations M1..Mn give back the tree as it was before M1, and n redo
\* calls after them give back the tree as it was right after Mn.
C5_RoundTrip ==
    /\ (phase = "undo" /\ steps = mutations) => Tree = startTree
    /\ (phase = "redo" /\ steps = mutations) => Tree = endTree

\* The store right after createNode(A), deleteNode(A): A has id 1, both
\* checkpoints are in past and nothing has been undone.
AfterCreateDelete ==
    /\ calls = 2
    /\ lastCall.op = "deleteNode" /\ lastCall.id = 1
    /\ Len(past) = 2 /\ future = <<>>

\* The store right after createNode(A), deleteNode(A), undo().
AfterCreateDeleteUndo ==
    /\ calls = 2
    /\ lastCall.op = "deleteNode" /\ lastCall.id = 1
    /\ Len(past) = 1 /\ Len(future) = 1

\* C6: after createNode(A) and deleteNode(A), the first undo() brings A back
\* into the node map and rootNodeIds, and the second undo() yields the tree
\* as it was before A was created.
C6_UndoRevertsLast ==
    [][ /\ (AfterCreateDelete /\ undo) =>
              Has(nodes', 1) /\ Includes(rootNodeIds', 1)
        /\ (AfterCreateDeleteUndo /\ undo) =>
              DOMAIN nodes' = {} /\ rootNodeIds' = <<>> ]_vars

\* C7: past never holds more than MAX_HISTORY_ITEMS entries, and a checkpoint
\* taken while past is full drops exactly the oldest entry and keeps the
\* others in order.
C7_HistoryCap ==
    [][ /\ Len(past') <= MAX_HISTORY_ITEMS
        /\ (calls' = calls + 1 /\ Len(past) = MAX_HISTORY_ITEMS) =>
               past' = Append(Tail(past), Entry(nodes', rootNodeIds')) ]_vars

\* A checkpoint has just been taken while past was full: the first call can
\* only create the single node 1, and the oldest entry now holds two nodes.
C7_Witness ==
    /\ calls = MAX_HISTORY_ITEMS + 1
    /\ Len(past) = MAX_HISTORY_ITEMS
    /\ future = <<>>
    /\ Cardinality(DOMAIN past[1].nodes) = 2
    /\ past[Len(past)] = Tree

\* C8: after every structural mutation that changes the tree, future is
\* empty, so that a redo() issued right after it changes nothing.
C8_FutureCleared ==
    [][ calls' = calls + 1 => future' = <<>> ]_vars

\* d is x or below x by parentId links.
RECURSIVE IsUnder(_, _, _, _)
IsUnder(d, x, ns, fuel) ==
    \/ d = x
    \/ /\ fuel > 0
       /\ Has(ns, d)
       /\ ns[d].parentId # NULL
       /\ IsUnder(ns[d].parentId, x, ns, fuel - 1)

\* x and its descendants in ns.
Subtree(x, ns) == { d \in DOMAIN ns : IsUnder(d, x, ns, Cardinality(DOMAIN ns)) }

\* The step is a deleteNode(x) that found x in the node map.
Deletes(x) ==
    /\ Has(nodes, x)
    /\ calls' = calls + 1
    /\ lastCall'.op = "deleteNode" /\ lastCall'.id = x

\* C9: after deleteNode(X) on an existing node, X and its former descendants
\* are no keys of the node map, no elements of rootNodeIds and no elements
\* of any remaining childrenIds; every other node is present and unchanged,
\* except that X's parent no longer lists X.
C9_DeleteCascades ==
    [][ \A x \in DOMAIN nodes : Deletes(x) =>
          LET sub == Subtree(x, nodes)
          IN  /\ DOMAIN nodes' = DOMAIN nodes \ sub
              /\ \A d \in sub :
                    /\ ~Includes(rootNodeIds', d)
                    /\ \A r \in DOMAIN nodes' : ~Includes(nodes'[r].childrenIds, d)
              /\ \A r \in DOMAIN nodes \ sub :
                    /\ r # nodes[x].parentId => nodes'[r] = nodes[r]
                    /\ r = nodes[x].parentId =>
                         /\ nodes'[r].childrenIds =
                                SelectSeq(nodes[r].childrenIds, LAMBDA c : c # x)
                         /\ nodes'[r] = [nodes[r] EXCEPT
                                !.childrenIds = nodes'[r].childrenIds] ]_vars

\* The fourth mutation deleted node x, which had a child and whose parent is
\* the only node left of the three that were created.
C9_Witness ==
    /\ calls = 4 /\ nextId = 4
    /\ lastCall.op = "deleteNode"
    /\ Len(past) >= 2
    /\ LET pre == past[Len(past) - 1].nodes
           x   == lastCall.id
       IN  /\ DOMAIN pre = {1, 2, 3}
           /\ pre[x].childrenIds # <<>>
           /\ DOMAIN nodes = {pre[x].parentId}

\* C10: after deleteNode(X), selectedNodeIds holds neither X nor a former
\* descendant of X, the other selected ids keep their order, and a
\* focusedNodeId that was X or a descendant of X is undefined.
C10_SessionPurged ==
    [][ \A x \in DOMAIN nodes : Deletes(x) =>
          LET sub == Subtree(x, nodes)
          IN  /\ selectedNodeIds' =
                     SelectSeq(selectedNodeIds, LAMBDA s : s \notin sub)
              /\ focusedNodeId \in sub => focusedNodeId' = NULL ]_vars

\* deleteNode has just removed a selected descendant of its argument and the
\* focused node, and left another selected id in place.
C10_Witness ==
    /\ lastCall.op = "deleteNode"
    /\ \E d \in Range(lastCall.selected) :
          d # lastCall.id /\ d # Ghost /\ ~Has(nodes, d)
    /\ selectedNodeIds # <<>>
    /\ lastCall.focused \in Ids /\ ~Has(nodes, lastCall.focused)
    /\ focusedNodeId = NULL

\* C11: after deleteNode(X), focusPath holds neither X nor a former
\* descendant of X.
C11_FocusPathPurged ==
    [][ \A x \in DOMAIN nodes : Deletes(x) =>
          \A d \in Subtree(x, nodes) : ~Includes(focusPath', d) ]_vars

\* The number of parentId links from d up to its ancestor x.
RECURSIVE HopsUp(_, _, _, _)
HopsUp(d, x, ns, fuel) ==
    IF d = x \/ fuel = 0 \/ ~Has(ns, d) THEN 0
    ELSE 1 + HopsUp(ns[d].parentId, x, ns, fuel - 1)

\* The largest element of a non-empty set of integers.
Largest(S) == CHOOSE m \in S : \A k \in S : k <= m

\* subtreeMaxDepth(x): the longest chain of child hops below x.
SubtreeHeight(x, ns) ==
    IF ~Has(ns, x) THEN 0
    ELSE Largest({ HopsUp(d, x, ns, Cardinality(DOMAIN ns)) :
                       d \in Subtree(x, ns) })

\* depth(p): the number of ancestors of p, and -1 for null or an absent id.
RECURSIVE Depth(_, _, _)
Depth(p, ns, fuel) ==
    IF p = NULL \/ ~Has(ns, p) \/ fuel = 0 THEN -1
    ELSE 1 + Depth(ns[p].parentId, ns, fuel - 1)

\* The four conditions under which a move of x below p is invalid.
InvalidMove(x, p, ns, maxDepth) ==
    \/ x = p
    \/ p # NULL /\ Has(ns, p) /\ IsUnder(p, x, ns, Cardinality(DOMAIN ns))
    \/ ~Has(ns, x)
    \/ Depth(p, ns, Cardinality(DOMAIN ns) + 1) + SubtreeHeight(x, ns) + 1
           >= maxDepth

\* The step is a moveNode call that changed the store.
Moves == calls' = calls + 1 /\ lastCall'.op = "moveNode"

\* C12: moveNode(X, P) changes nothing when X = P, P is a descendant of X,
\* X is not in the node map, or depth(P) + subtreeMaxDepth(X) + 1 >=
\* MAX_DEPTH: a moveNode call that changes the store has none of the four.
C12_InvalidMoveIsNoOp ==
    [][ Moves => ~InvalidMove(lastCall'.id, lastCall'.arg, nodes, MAX_DEPTH)
      ]_vars

\* A store in which each of the four kinds of invalid move can be requested
\* (a node with a descendant, and a leaf at the deepest level under which a
\* present node cannot go), reached by a valid move whose rejected
\* alternatives leave it as it is.
C12_Witness ==
    /\ lastCall.op = "moveNode"
    /\ \E x, p \in DOMAIN nodes :
          x # p /\ IsUnder(p, x, nodes, Cardinality(DOMAIN nodes))
    /\ \E x, p \in DOMAIN nodes :
          /\ ~IsUnder(p, x, nodes, Cardinality(DOMAIN nodes))
          /\ ~IsUnder(x, p, nodes, Cardinality(DOMAIN nodes))
          /\ InvalidMove(x, p, nodes, MAX_DEPTH)

\* The tree is well formed: parent and child links agree, the roots are the
\* nodes without parent, and levels are depths.
WellFormed == C1_LevelIsDepth /\ C2_ParentLinks /\ C3_Roots

\* Values of the maxDepth argument of canMoveNode.
MaxDepths == 0..(MAX_DEPTH + 1)

\* C13: on a well-formed tree, for every id X and every P that is null or an
\* existing node, canMoveNode is false in the four invalid cases and true
\* in every other case.
C13_CanMoveNode ==
    WellFormed =>
        \A x \in TreeIds, p \in DOMAIN nodes \cup {NULL}, m \in MaxDepths :
            canMoveNode(x, p, nodes, m) = ~InvalidMove(x, p, nodes, m)

\* A well-formed tree on which canMoveNode answers true for one pair and
\* false for a descendant target and, separately, for the depth limit.
C13_Witness ==
    /\ WellFormed
    /\ \E x, p \in DOMAIN nodes : canMoveNode(x, p, nodes, MAX_DEPTH)
    /\ \E x, p \in DOMAIN nodes :
          /\ x # p /\ IsUnder(p, x, nodes, Cardinality(DOMAIN nodes))
          /\ ~canMoveNode(x, p, nodes, MAX_DEPTH + 1)
    /\ \E x, p \in DOMAIN nodes :
          /\ ~IsUnder(p, x, nodes, Cardinality(DOMAIN nodes))
          /\ ~canMoveNode(x, p, nodes, MAX_DEPTH)
          /\ canMoveNode(x, p, nodes, MAX_DEPTH + 1)

\* C14: after a successful moveNode(X, P) the keys of the node map, the set
\* of X's descendants and the childrenIds lists inside X's subtree are
\* unchanged, X.parentId = P, X.level is 0 for P null and P.level + 1
\* otherwise, and every descendant's level is X.level plus its number of
\* child hops from X.
C14_MoveKeepsShape ==
    [][ Moves =>
          LET x   == lastCall'.id
              p   == lastCall'.arg
              sub == Subtree(x, nodes)
              N   == Cardinality(DOMAIN nodes)
          IN  /\ DOMAIN nodes' = DOMAIN nodes
              /\ Subtree(x, nodes') = sub
              /\ \A d \in sub : nodes'[d].childrenIds = nodes[d].childrenIds
              /\ nodes'[x].parentId = p
              /\ nodes'[x].level = IF p = NULL THEN 0 ELSE nodes'[p].level + 1
              /\ \A d \in sub :
                    nodes'[d].level = nodes'[x].level + HopsUp(d, x, nodes', N)
      ]_vars

\* A node with a child has just been moved from the root to below another
\* node: it and its child were both re-levelled.
C14_Witness ==
    /\ lastCall.op = "moveNode"
    /\ lastCall.arg # NULL
    /\ Has(nodes, lastCall.id)
    /\ nodes[lastCall.id].parentId = lastCall.arg
    /\ nodes[lastCall.id].childrenIds # <<>>
    /\ Len(past) >= 2
    /\ past[Len(past) - 1].nodes[lastCall.id].level = 0
    /\ \A i \in DOMAIN nodes[lastCall.id].childrenIds :
          nodes[nodes[lastCall.id].childrenIds[i]].level = 2

\* The step is a createNode call that changed the store.
Creates == calls' = calls + 1 /\ lastCall'.op = "createNode"

\* C15: createNode(P, data) with P present and P.level + 1 >= MAX_DEPTH
\* changes nothing: a createNode call that changes the store has no such P.
C15_CreateTooDeepIsNoOp ==
    [][ Creates =>
          ~(Has(nodes, lastCall'.arg)
              /\ nodes[lastCall'.arg].level + 1 >= MAX_DEPTH) ]_vars

\* A node sits at the deepest level and generateId has ids left: createNode
\* below it is requested, rejected, and leaves this state as it is.
C15_Witness ==
    /\ nextId <= MaxNodes
    /\ calls < MaxCalls
    /\ lastCall.op = "createNode"
    /\ Has(nodes, lastCall.id)
    /\ nodes[lastCall.id].level = MAX_DEPTH - 1

\* C16: createNode(P, data) with P null, or P present with level below
\* MAX_DEPTH - 1, adds exactly one node, with level P.level + 1 (0 for
\* null), parentId P and no children; its id is the last element of
\* P.childrenIds (of rootNodeIds for null), P.isCollapsed becomes false, and
\* no other node changes.
C16_CreateAddsOneNode ==
    [][ \A p \in DOMAIN nodes \cup {NULL} :
          (Creates /\ lastCall'.arg = p) =>
            LET id == lastCall'.id
            IN  /\ DOMAIN nodes' = DOMAIN nodes \cup {id}
                /\ id \notin DOMAIN nodes
                /\ nodes'[id].level = IF p = NULL THEN 0 ELSE nodes[p].level + 1
                /\ nodes'[id].parentId = p
                /\ nodes'[id].childrenIds = <<>>
                /\ IF p = NULL
                   THEN /\ rootNodeIds' = Append(rootNodeIds, id)
                        /\ \A k \in DOMAIN nodes : nodes'[k] = nodes[k]
                   ELSE /\ rootNodeIds' = rootNodeIds
                        /\ nodes'[p] = [nodes[p] EXCEPT
                              !.childrenIds = Append(nodes[p].childrenIds, id),
                              !.isCollapsed = FALSE]
                        /\ \A k \in DOMAIN nodes \ {p} : nodes'[k] = nodes[k]
      ]_vars

\* A child has just been created under a parent that was collapsed and had
\* a child already: the parent is expanded and lists the new id last.
C16_Witness ==
    /\ lastCall.op = "createNode"
    /\ lastCall.collapsed
    /\ Has(nodes, lastCall.arg)
    /\ Len(nodes[lastCall.arg].childrenIds) = 2
    /\ nodes[lastCall.arg].childrenIds[2] = lastCall.id
    /\ ~nodes[lastCall.arg].isCollapsed
    /\ Len(past) >= 2
    /\ Has(past[Len(past) - 1].nodes, lastCall.arg)
    /\ Len(past[Len(past) - 1].nodes[lastCall.arg].childrenIds) = 1

\* The store state a call can change: tree, session and history.
storeVars == <<treeVars, sessionVars, histVars>>

\* C17: updateNode, deleteNode and moveNode called with an id that is not a
\* key of the node map (for moveNode the moved id or a non-null target
\* parent) raise no error and leave nodes, rootNodeIds, session and history
\* unchanged.
C17_MissingIdIsNoOp ==
    [][ /\ \A id \in TreeIds, t \in UpdatedTitles :
              (~Has(nodes, id) /\ updateNode(id, [title |-> t])) =>
                  ~threw' /\ UNCHANGED storeVars
        /\ \A id \in TreeIds :
              (~Has(nodes, id) /\ deleteNode(id)) =>
                  ~threw' /\ UNCHANGED storeVars
        /\ \A id \in TreeIds, p \in TreeIds \cup {NULL}, pos \in Positions :
              ( /\ ~Has(nodes, id) \/ (p # NULL /\ ~Has(nodes, p))
                /\ moveNode(id, p, pos)
                /\ threw' = moveNodeThrows(id, p) ) =>
                  ~threw' /\ UNCHANGED storeVars ]_vars

\* The step is a duplicateNode call that changed the store.
Duplicates == calls' = calls + 1 /\ lastCall'.op = "duplicateNode"

\* f maps the subtree of x in ns one-to-one onto the node set new of ns2,
\* x to c, keeping parent and child links, child order, title, level and
\* the collapse flag.
Mirrors(f, x, c, ns, new, ns2) ==
    /\ f[x] = c
    /\ { f[d] : d \in DOMAIN f } = new
    /\ \A d, e \in DOMAIN f : f[d] = f[e] => d = e
    /\ \A d \in DOMAIN f :
          /\ ns2[f[d]].id = f[d]
          /\ ns2[f[d]].title = ns[d].title
          /\ ns2[f[d]].level = ns[d].level
          /\ ns2[f[d]].isCollapsed = ns[d].isCollapsed
          /\ ns2[f[d]].childrenIds =
                 [i \in DOMAIN ns[d].childrenIds |-> f[ns[d].childrenIds[i]]]
          /\ d # x => ns2[f[d]].parentId = f[ns[d].parentId]

\* list2 is list with c inserted right after the one occurrence of x.
InsertedAfter(list2, list, x, c) ==
    \E i \in DOMAIN list :
        /\ list[i] = x
        /\ list2 = SubSeq(list, 1, i) \o <<c>> \o SubSeq(list, i + 1, Len(list))

\* C18: duplicateNode(X) on an existing X adds a clone of X's whole subtree
\* under fresh ids, leaves the old nodes unchanged apart from the parent's
\* child list, and inserts the clone's root right after X in the parent's
\* childrenIds, or in rootNodeIds when X is listed there.
C18_DuplicateAdjacent ==
    [][ Duplicates =>
          LET x    == lastCall'.arg
              c    == lastCall'.id
              sub  == Subtree(x, nodes)
              new  == DOMAIN nodes' \ DOMAIN nodes
              root == Includes(rootNodeIds, x)
              par  == nodes[x].parentId
          IN  /\ Has(nodes, x)
              /\ DOMAIN nodes \subseteq DOMAIN nodes'
              /\ new \cap (1..(nextId - 1)) = {}
              /\ \E f \in [sub -> new] : Mirrors(f, x, c, nodes, new, nodes')
              /\ nodes'[c].parentId = par
              /\ IF root
                 THEN /\ InsertedAfter(rootNodeIds', rootNodeIds, x, c)
                      /\ \A k \in DOMAIN nodes : nodes'[k] = nodes[k]
                 ELSE /\ rootNodeIds' = rootNodeIds
                      /\ Has(nodes, par)
                      /\ InsertedAfter(nodes'[par].childrenIds,
                                       nodes[par].childrenIds, x, c)
                      /\ nodes'[par] = [nodes[par] EXCEPT
                             !.childrenIds = nodes'[par].childrenIds]
                      /\ \A k \in DOMAIN nodes \ {par} : nodes'[k] = nodes[k]
      ]_vars

\* A root with a child and a later sibling has just been duplicated: the
\* clone sits between the original and the sibling.
C18_Witness ==
    /\ lastCall.op = "duplicateNode"
    /\ Has(nodes, lastCall.arg)
    /\ nodes[lastCall.arg].childrenIds # <<>>
    /\ \E i \in DOMAIN rootNodeIds :
          /\ rootNodeIds[i] = lastCall.arg
          /\ i + 2 <= Len(rootNodeIds)
          /\ rootNodeIds[i + 1] = lastCall.id

\* C19: cloneSubtree(X, nodes, P) for a present X returns 1 + the number of
\* X's descendants entries under keys that are no keys of nodes, mirroring
\* X's subtree link for link, in child order, with the same titles and
\* levels, the clone root's parentId being P; for an absent X it throws.
C19_CloneSubtree ==
    \A x \in TreeIds, p \in TreeIds \cup {NULL} :
        LET r == cloneSubtree(x, nodes, p, nextId)
        IN  IF ~Has(nodes, x) THEN ~r.ok
            ELSE /\ r.ok
                 /\ DOMAIN r.newNodes \cap DOMAIN nodes = {}
                 /\ Cardinality(DOMAIN r.newNodes) =
                        Cardinality(Subtree(x, nodes))
                 /\ \E f \in [Subtree(x, nodes) -> DOMAIN r.newNodes] :
                        Mirrors(f, x, r.id, nodes, DOMAIN r.newNodes, r.newNodes)
                 /\ r.newNodes[r.id].parentId = p

\* The store holds a node with a parent and a child, and a clone of a node
\* with a child that duplicateNode obtained from cloneSubtree.
C19_Witness ==
    /\ \E x \in DOMAIN nodes : Cardinality(Subtree(x, nodes)) >= 2
                                  /\ nodes[x].parentId # NULL
    /\ lastCall.op = "duplicateNode"
    /\ Cardinality(Subtree(lastCall.id, nodes)) >= 2

\* The step is an applyTemplate call that changed the store.
Applies == calls' = calls + 1 /\ lastCall'.op = "applyTemplate"

\* C20: applyTemplate(T, P) adds a clone under fresh ids, attached as the
\* last child of P (last root for null); the clone root's parentId is P,
\* every cloned node's level equals its depth, and no level exceeds
\* MAX_DEPTH - 1.
C20_ApplyTemplateKeepsInvariants ==
    [][ Applies =>
          LET c   == lastCall'.id
              p   == lastCall'.arg
              new == DOMAIN nodes' \ DOMAIN nodes
              N   == Cardinality(DOMAIN nodes')
          IN  /\ c \in new
              /\ new \cap (1..(nextId - 1)) = {}
              /\ nodes'[c].parentId = p
              /\ IF p = NULL
                 THEN rootNodeIds' = Append(rootNodeIds, c)
                 ELSE /\ Has(nodes, p)
                      /\ nodes'[p].childrenIds = Append(nodes[p].childrenIds, c)
              /\ \A d \in new :
                    /\ nodes'[d].level = Depth(d, nodes', N + 1)
                    /\ nodes'[d].level <= MAX_DEPTH - 1 ]_vars

----------------------------------------------------------------------------
\* C21: in every reachable state every id in selectedNodeIds, and
\* focusedNodeId when it is defined, is a key of the node map.
C21_SessionIdsExist ==
    /\ \A i \in DOMAIN selectedNodeIds : Has(nodes, selectedNodeIds[i])
    /\ focusedNodeId # NULL => Has(nodes, focusedNodeId)

NoDuplicates(seq) ==
    \A i, j \in DOMAIN seq : i # j => seq[i] # seq[j]

\* A step that is a selectNode call.
Selects ==
    /\ sessionCalls' = sessionCalls + 1
    /\ lastInput'.op = "selectNode"

\* C22: selectNode(id, false) sets selectedNodeIds to exactly [id];
\* selectNode(id, true) appends id at the end when it is absent and changes
\* nothing when it is present; after every call of selectNode, deselectNode,
\* selectAll, clearSelection, deleteNode (and createNode) selectedNodeIds
\* holds no id twice.
C22_SelectNode ==
    [][/\ Selects =>
            LET id == lastInput'.id
            IN  /\ ~lastInput'.multi => selectedNodeIds' = <<id>>
                /\ (lastInput'.multi /\ ~Includes(selectedNodeIds, id)) =>
                       selectedNodeIds' = Append(selectedNodeIds, id)
                /\ (lastInput'.multi /\ Includes(selectedNodeIds, id)) =>
                       selectedNodeIds' = selectedNodeIds
       /\ NoDuplicates(selectedNodeIds')]_vars

\* selectNode(id, true) was called on a selection that held id already,
\* and the selection is as the call found it.
C22_Witness ==
    /\ lastInput.op = "selectNode"
    /\ lastInput.multi
    /\ Includes(lastInput.selected, lastInput.id)
    /\ selectedNodeIds = lastInput.selected

----------------------------------------------------------------------------
(* Import                                                                  *)

\* A step that is an importData call, and one that is a successful call.
Imports == lastInput'.op = "importData"
ImportSucceeds == imports' = imports + 1

\* The documents the format turns down: text that is not valid JSON, a
\* parsed root that is not an object (number, string, boolean, null,
\* array), a nodes field that is not an object, a rootNodeIds field that is
\* not an array.
NotAnObject(value) == value.t # "object"
TurnedDown(jsonData) ==
    \/ ~jsonData.valid
    \/ NotAnObject(jsonData.root)
    \/ /\ Field(jsonData.root, "nodes").t # "undefined"
       /\ NotAnObject(Field(jsonData.root, "nodes"))
    \/ Field(jsonData.root, "rootNodeIds").t \notin {"undefined", "array"}

\* C23: importData on text that is not valid JSON, or whose parsed root is
\* not an object, or whose nodes field is a non-object, or whose
\* rootNodeIds field is a non-array, throws and leaves nodes, rootNodeIds,
\* the session, templates, snapshots and history as they were.
C23_RejectedImport ==
    [][(Imports /\ TurnedDown(lastInput'.jsonData)) =>
          /\ threw'
          /\ UNCHANGED <<treeVars, sessionVars, templates, snapshots,
                         histVars>>]_vars

\* C24: after a successful importData, rootNodeIds, selectedNodeIds,
\* focusPath and every node's childrenIds hold only keys of the node map.
C24_NoDanglingIds ==
    [][ImportSucceeds =>
          /\ \A i \in DOMAIN rootNodeIds' : Has(nodes', rootNodeIds'[i])
          /\ \A i \in DOMAIN selectedNodeIds' :
                 Has(nodes', selectedNodeIds'[i])
          /\ focusPath' # <<NULL>> =>
                 \A i \in DOMAIN focusPath' : Has(nodes', focusPath'[i])
          /\ \A id \in DOMAIN nodes' :
                 \A i \in DOMAIN nodes'[id].childrenIds :
                     Has(nodes', nodes'[id].childrenIds[i])]_vars

\* C25: after a successful importData every non-null parentId names a node
\* whose childrenIds holds the child exactly once, every node with parentId
\* null is in rootNodeIds exactly once, and every node's level is its depth
\* along the parentId chain.
C25_ImportedTreeWellFormed ==
    [][ImportSucceeds =>
          \A id \in DOMAIN nodes' :
              /\ nodes'[id].parentId # NULL =>
                     /\ Has(nodes', nodes'[id].parentId)
                     /\ Count(nodes'[nodes'[id].parentId].childrenIds, id) = 1
              /\ nodes'[id].parentId = NULL => Count(rootNodeIds', id) = 1
              /\ nodes'[id].level =
                     Depth(id, nodes', Cardinality(DOMAIN nodes') + 1)]_vars

\* The level the format gives a node for the level the document carries: 0
\* for what is no finite number and for a negative number, MAX_DEPTH - 1
\* for a number above it, the whole part otherwise.
LevelFor(value) ==
    IF value.t # "number" THEN 0
    ELSE IF ~value.finite THEN 0
    ELSE IF value.tenths < 0 THEN 0
    ELSE IF value.tenths > 10 * (MAX_DEPTH - 1) THEN MAX_DEPTH - 1
    ELSE CHOOSE n \in 0..(MAX_DEPTH - 1) :
             10 * n <= value.tenths /\ value.tenths < 10 * n + 10

\* The entries of the document's node map that carry no id of their own.
PlainEntries(jsonData) ==
    LET ns == Field(jsonData.root, "nodes")
    IN  IF ns.t # "object" THEN {}
        ELSE { k \in DOMAIN ns.v :
                 \A j \in DOMAIN ns.v : Field(ns.v[j], "id").t = "undefined" }

\* C26: after a successful importData every node's level is an integer in
\* 0 .. MAX_DEPTH-1: LevelFor of the level the document carries; a title
\* that is no string has become '' and an isCollapsed that is no boolean
\* has become false, a string title and a boolean isCollapsed are kept.
C26_SanitizedFields ==
    [][ImportSucceeds =>
          /\ \A id \in DOMAIN nodes' :
                 nodes'[id].level \in 0..(MAX_DEPTH - 1)
          /\ \A k \in PlainEntries(lastInput'.jsonData) :
                 LET raw == Field(lastInput'.jsonData.root, "nodes").v[k]
                 IN  /\ Has(nodes', k)
                     /\ nodes'[k].level = LevelFor(Field(raw, "level"))
                     /\ nodes'[k].title =
                            IF Field(raw, "title").t = "string"
                            THEN Field(raw, "title").v ELSE ""
                     /\ nodes'[k].isCollapsed =
                            IF Field(raw, "isCollapsed").t = "boolean"
                            THEN Field(raw, "isCollapsed").v ELSE FALSE]_vars

\* A document was imported whose node carries a level far above the
\* ceiling, a title that is no string and an isCollapsed that is no
\* boolean; the node has the top level, the empty title and is expanded.
C26_Witness ==
    /\ imports = 1
    /\ lastInput.op = "importData"
    /\ 1 \in PlainEntries(lastInput.jsonData)
    /\ LET raw == Field(lastInput.jsonData.root, "nodes").v[1]
       IN  /\ Field(raw, "level") = JSNum(10 * MAX_DEPTH + 25)
           /\ Field(raw, "title").t = "number"
           /\ Field(raw, "isCollapsed").t = "string"
    /\ nodes[1].level = MAX_DEPTH - 1
    /\ nodes[1].title = ""
    /\ ~nodes[1].isCollapsed

\* The keys of a section of the document, the strings of an array in it.
KeysOf(value) == IF value.t = "object" THEN DOMAIN value.v ELSE {}
StringSet(value) ==
    IF value.t # "array" THEN {}
    ELSE { value.v[i].v : i \in { i \in DOMAIN value.v : value.v[i].t = "string" } }

\* The store holds the content of the document doc and nothing else: the
\* nodes, roots, selection, focus, history flag, templates and snapshots
\* the document names, a section that the document lacks being empty or at
\* its default.
Replaced(doc) ==
    LET session == Field(doc, "session")
        tpls    == Field(doc, "templates")
        snaps   == Field(doc, "snapshots")
    IN  /\ DOMAIN nodes' = KeysOf(Field(doc, "nodes"))
        /\ \A k \in DOMAIN nodes' :
               LET raw == Field(doc, "nodes").v[k]
               IN  /\ nodes'[k].id = k
                   /\ nodes'[k].parentId =
                          IF Field(raw, "parentId").t = "string"
                          THEN Field(raw, "parentId").v ELSE NULL
                   /\ Range(nodes'[k].childrenIds) =
                          StringSet(Field(raw, "childrenIds"))
        /\ Range(rootNodeIds') =
               StringSet(Field(doc, "rootNodeIds")) \cap DOMAIN nodes'
        /\ Range(selectedNodeIds') =
               StringSet(Field(session, "selectedNodeIds")) \cap DOMAIN nodes'
        /\ focusedNodeId' = IF Field(session, "focusedNodeId").t = "string"
                            THEN Field(session, "focusedNodeId").v ELSE NULL
        /\ IF session.t = "object"
           THEN Range(focusPath') = StringSet(Field(session, "focusPath"))
           ELSE focusPath' = <<NULL>>
        /\ historyEnabled' = IF Field(session, "historyEnabled").t = "boolean"
                             THEN Field(session, "historyEnabled").v ELSE TRUE
        /\ templates' =
               { Field(tpls.v[k], "rootNodeId").v :
                   k \in { k \in KeysOf(tpls) :
                             Field(tpls.v[k], "rootNodeId").t = "string" } }
        /\ { snapshots'[i].id : i \in DOMAIN snapshots' } =
               { k \in KeysOf(snaps) :
                   Field(snaps.v[k], "sessionId").t = "string" }

\* Exactly one checkpoint was taken: the last entry of past is the live
\* tree, the entries before it are the latest ones of the old past, and
\* future is empty.
Checkpointed ==
    /\ past' # <<>>
    /\ past'[Len(past')] = Entry(nodes', rootNodeIds')
    /\ Len(past') = Min2(Len(past) + 1, MAX_HISTORY_ITEMS)
    /\ \A i \in 1..(Len(past') - 1) :
           past'[i] = past[Len(past) - (Len(past') - 1) + i]
    /\ future' = <<>>

\* C27 as stated: a successful importData replaces nodes, rootNodeIds, the
\* session, templates and snapshots with the content of the document and
\* then takes exactly one history checkpoint.
C27_ImportReplaces ==
    [][ImportSucceeds =>
          /\ Replaced(lastInput'.jsonData.root)
          /\ Checkpointed]_vars

\* C27 amended: a successful importData replaces nodes, rootNodeIds, the
\* session, templates and snapshots with the content of the document, and
\* takes exactly one history checkpoint when the imported session has
\* historyEnabled true (the default of a session that does not name it).
C27_ImportReplacesAndCheckpoints ==
    [][ImportSucceeds =>
          /\ Replaced(lastInput'.jsonData.root)
          /\ historyEnabled' => Checkpointed]_vars

\* A document with every section was imported, history enabled, into a
\* store that had a selection, a redo stack, a snapshot and a template of
\* another node: the store holds the document's template and no redo
\* stack, and the last checkpoint is the imported tree.
C27_Witness ==
    /\ imports = 1
    /\ lastInput.op = "importData"
    /\ Field(lastInput.jsonData.root, "templates").t = "object"
    /\ lastInput.future # <<>>
    /\ lastInput.snapshots # <<>>
    /\ lastInput.templates = {2}
    /\ lastCall.selected # <<>>
    /\ templates = {1}
    /\ historyEnabled
    /\ future = <<>>
    /\ past[Len(past)] = Entry(nodes, rootNodeIds)

\* ---------------------------------------------------------------------
\* Snapshots
\* ---------------------------------------------------------------------

Restores == lastInput'.op = "restoreSnapshot"

\* The snapshot asked for is in the registry.
KnownSnapshot == SnapshotAt(lastInput'.id, snapshots) # 0

\* The live tree is the one that was live when the snapshot asked for was
\* made.
TreeAsTaken ==
    /\ lastInput'.id \in DOMAIN TakenOf(lastInput')
    /\ Entry(nodes', rootNodeIds') = TakenOf(lastInput')[lastInput'.id]

\* C28 as stated: restoreSnapshot(S) sets nodes and rootNodeIds to the tree
\* that was live when createSnapshot made S, whatever happened in between,
\* and takes one history checkpoint; with an unknown id it changes nothing.
C28_RestoreSnapshot ==
    [][Restores =>
          IF KnownSnapshot
          THEN TreeAsTaken /\ Checkpointed
          ELSE UNCHANGED <<treeVars, sessionVars, histVars, templates,
                           snapVars>>]_vars

\* C28 amended: restoreSnapshot(S) sets nodes and rootNodeIds to the tree
\* that was live when createSnapshot made S, whatever happened in between,
\* and takes one history checkpoint when the session has historyEnabled
\* true; with an unknown id it changes nothing.
C28_RestoreSnapshotAndCheckpoint ==
    [][Restores =>
          IF KnownSnapshot
          THEN TreeAsTaken /\ (historyEnabled => Checkpointed)
          ELSE UNCHANGED <<treeVars, sessionVars, histVars, templates,
                           snapVars>>]_vars

\* A snapshot was restored over a tree that had changed since it was made:
\* the live tree is the one taken, it differs from the newest checkpoint
\* before it, and the redo stack is empty.
C28_Witness ==
    /\ lastInput.op = "restoreSnapshot"
    /\ lastInput.id \in DOMAIN TakenOf(lastInput)
    /\ Entry(nodes, rootNodeIds) = TakenOf(lastInput)[lastInput.id]
    /\ Len(past) >= 2
    /\ past[Len(past)] = Entry(nodes, rootNodeIds)
    /\ past[Len(past) - 1] # Entry(nodes, rootNodeIds)
    /\ DOMAIN past[Len(past) - 1].nodes # DOMAIN nodes
    /\ future = <<>>

\* ---------------------------------------------------------------------
\* Field updates and presentation calls
\* ---------------------------------------------------------------------

ViewOps == {"updateNode", "toggleCollapse", "toggleDone", "togglePin",
            "collapseAll", "expandAll", "collapseToLevel"}

\* C29: updateNode, toggleCollapse, toggleDone, togglePin, collapseAll,
\* expandAll and collapseToLevel never change history.past or
\* history.future: none of them takes a checkpoint or clears the redo
\* stack.
C29_ViewCallsKeepHistory ==
    [][lastInput'.op \in ViewOps =>
          /\ past' = past
          /\ future' = future]_vars

\* A node was marked done while both the undo and the redo stack held
\* entries, and no entry of either stack holds the mark.
C29_Witness ==
    /\ lastInput.op = "toggleDone"
    /\ past # <<>>
    /\ future # <<>>
    /\ \E id \in DOMAIN nodes : Truthy(nodes[id], "isDone")
    /\ \A i \in 1..Len(past) : \A id \in DOMAIN past[i].nodes :
           ~Truthy(past[i].nodes[id], "isDone")
    /\ \A i \in 1..Len(future) : \A id \in DOMAIN future[i].nodes :
           ~Truthy(future[i].nodes[id], "isDone")

\* ---------------------------------------------------------------------
\* Structural calls with history disabled
\* ---------------------------------------------------------------------

\* The ids generateId handed out from `from` on, moved down by `shift`
\* (Ghost is no id that generateId hands out).
ShiftId(id, from, shift) == IF id \in from..MaxNodes THEN id - shift ELSE id

ShiftIds(ids, from, shift) ==
    [i \in DOMAIN ids |-> ShiftId(ids[i], from, shift)]

\* The tree with the ids generated from `from` on moved down by `shift`:
\* the tree the same calls build when generateId returns the ids it
\* returned `shift` calls earlier.
ShiftTree(ns, roots, from, shift) ==
    Entry([k \in {ShiftId(id, from, shift) : id \in DOMAIN ns} |->
             LET id == CHOOSE i \in DOMAIN ns : ShiftId(i, from, shift) = k
             IN  [ns[id] EXCEPT
                    !.id = ShiftId(@, from, shift),
                    !.parentId = ShiftId(@, from, shift),
                    !.childrenIds = ShiftIds(@, from, shift)]],
          ShiftIds(roots, from, shift))

CallsDisabled ==
    /\ lastInput.op = "off"
    /\ lastInput'.op = "disabled"
    /\ ~historyEnabled

CallsEnabled ==
    /\ lastInput.op = "rewound"
    /\ lastInput'.op = "enabled"
    /\ historyEnabled

\* C30: while currentSession.historyEnabled is false, createNode,
\* deleteNode, moveNode and duplicateNode leave history.past unchanged, and
\* they change nodes and rootNodeIds as the same call on the same tree does
\* when it is true (up to the ids generateId returns).
C30_DisabledHistoryKeepsEffect ==
    [][/\ CallsDisabled => past' = past
       /\ CallsEnabled =>
             ShiftTree(nodes', rootNodeIds', nextId,
                       nextId - lastInput.fresh) = lastInput.after]_vars

\* A node was moved with history disabled and checkpoints on the undo
\* stack, the move was undone and made again with history enabled: the
\* tree is the one the first move left, and the undo stack holds it once,
\* from the second move.
C30_Witness ==
    /\ lastInput.op = "enabled"
    /\ lastInput.call.op = "moveNode"
    /\ lastInput.after # lastInput.before
    /\ Entry(nodes, rootNodeIds) = lastInput.after
    /\ historyEnabled
    /\ Len(past) >= 2
    /\ past[Len(past)] = Entry(nodes, rootNodeIds)
    /\ \A i \in 1..(Len(past) - 1) : past[i] # Entry(nodes, rootNodeIds)

\* ---------------------------------------------------------------------
\* Zoom
\* ---------------------------------------------------------------------

\* path is the parentId chain that ends in id: each element is the parent
\* of the next, and the first has no parent in the node map.
ChainTo(path, id, ns) ==
    /\ path # <<>>
    /\ path[Len(path)] = id
    /\ \A i \in 1..Len(path) : Has(ns, path[i])
    /\ \A i \in 2..Len(path) : ns[path[i]].parentId = path[i - 1]
    /\ ns[path[1]].parentId = NULL \/ ~Has(ns, ns[path[1]].parentId)

\* C31: zoomIn(X) for an existing X sets focusedNodeId to X and focusPath to
\* the ids on the parentId chain from X's topmost ancestor down to X (the
\* ids of getPath(X), root first); zoomIn on an id that is not in the node
\* map changes nothing.
C31_ZoomIn ==
    [][lastInput'.op = "zoomIn" =>
          IF Has(nodes, lastInput'.id)
          THEN /\ focusedNodeId' = lastInput'.id
               /\ focusPath' = getPath(lastInput'.id, nodes)
               /\ ChainTo(focusPath', lastInput'.id, nodes)
               /\ UNCHANGED <<treeVars, histVars, selectedNodeIds,
                              historyEnabled, templates, snapVars>>
          ELSE UNCHANGED <<treeVars, sessionVars, histVars, templates,
                           snapVars>>]_vars

\* A node two levels below its root was zoomed in on: the breadcrumb holds
\* three ids.
C31_Witness ==
    /\ lastInput.op = "zoomIn"
    /\ Has(nodes, lastInput.id)
    /\ focusedNodeId = lastInput.id
    /\ focusPath # <<NULL>>
    /\ Len(focusPath) = 3
    /\ nodes[focusPath[1]].parentId = NULL

ZoomsOut == lastInput'.op = "zoomOut"

FocusExited(focused, path) == focused = NULL /\ path = <<NULL>>

\* C32: zoomOut() with a focusPath of length > 1 removes its last element
\* and sets focusedNodeId to the new last element; with a focusPath of
\* length <= 1, or none, it sets focusedNodeId and focusPath to undefined;
\* so the zoomOut call number d + 1 in a row after zoomIn on a node at depth
\* d leaves focus mode exited.
C32_ZoomOut ==
    [][ZoomsOut =>
          /\ IF focusPath # <<NULL>> /\ Len(focusPath) > 1
             THEN /\ focusPath' = SubSeq(focusPath, 1, Len(focusPath) - 1)
                  /\ focusedNodeId' = focusPath'[Len(focusPath')]
             ELSE FocusExited(focusedNodeId', focusPath')
          /\ (lastInput'.zoomed /\ lastInput'.outs = lastInput'.depth + 1)
                => FocusExited(focusedNodeId', focusPath')
          /\ (lastInput'.zoomed /\ lastInput'.outs <= lastInput'.depth)
                => ~FocusExited(focusedNodeId', focusPath')]_vars

\* zoomOut was called once after zoomIn on a node two levels below its
\* root: the breadcrumb holds the two ancestors and the parent is focused.
C32_Witness ==
    /\ lastInput.op = "zoomOut"
    /\ lastInput.zoomed
    /\ lastInput.depth = 2
    /\ lastInput.outs = 1
    /\ focusPath # <<NULL>>
    /\ Len(focusPath) = 2
    /\ focusedNodeId = focusPath[2]
    /\ Has(nodes, focusedNodeId)
----------------------------------------------------------------------------
(* The auto-save hook                                                      *)

\* C33: with useAutoSave mounted, a write to localStorage happens only when
\* AUTO_SAVE_INTERVAL has passed since the most recent store change, and a
\* burst of changes closer together than the interval gives exactly one
\* write, which holds the state after the last change: as long as less than
\* the interval has passed since the last change nothing was written, and
\* from the moment more than the interval has passed exactly one write was
\* made, of the state the store is in.
C33_OneWritePerBurst ==
    /\ sinceChange \in 0..(AUTO_SAVE_INTERVAL - 1) => writes = 0
    /\ writes > 0 => writes = 1 /\ storage = exportData
    /\ sinceChange > AUTO_SAVE_INTERVAL => writes = 1

\* C36: with useAutoSave mounted, once the render that follows a change of
\* rtl is done, hasPendingChanges is never true with no save timer armed,
\* so that every change is written when the interval has passed without
\* another.
C36_PendingChangeHasTimer ==
    effectRtl = rtl /\ hasPendingChanges => timeoutRef >= 0

----------------------------------------------------------------------------
(* undo and redo in pairs                                                  *)

\* The tree and the two history stacks of a recorded store.
TreeAndHistory(store) ==
    [nodes |-> store.nodes, rootNodeIds |-> store.rootNodeIds,
     past |-> store.past, future |-> store.future]

\* The last call was call, made right after a call of first.
PairMade(first, call) ==
    /\ lastInput.op = call
    /\ lastInput.prior.op = first

\* C34: undo on a non-empty past followed at once by redo leaves nodes,
\* rootNodeIds, past and future as they were before the undo, redo on a
\* non-empty future followed at once by undo does likewise, and undo on an
\* empty past, like redo on an empty future, changes nothing in the store.
C34_UndoRedoPairs ==
    /\ PairMade("undo", "redo") /\ lastInput.prior.before.past # <<>>
         => TreeAndHistory(StoreState) = TreeAndHistory(lastInput.prior.before)
    /\ PairMade("redo", "undo") /\ lastInput.prior.before.future # <<>>
         => TreeAndHistory(StoreState) = TreeAndHistory(lastInput.prior.before)
    /\ lastInput.op = "undo" /\ lastInput.before.past = <<>>
         => StoreState = lastInput.before
    /\ lastInput.op = "redo" /\ lastInput.before.future = <<>>
         => StoreState = lastInput.before

\* An undo and redo pair made on a non-empty past and a non-empty future,
\* the undo having changed the tree.
C34_Witness ==
    /\ PairMade("undo", "redo")
    /\ lastInput.prior.before.past # <<>>
    /\ lastInput.prior.before.future # <<>>
    /\ lastInput.before.nodes # lastInput.prior.before.nodes

----------------------------------------------------------------------------
(* Cycles in an imported tree                                              *)

\* The ids met on the parentId chain of id within the given number of steps.
RECURSIVE ParentChain(_, _, _)
ParentChain(id, ns, fuel) ==
    IF fuel = 0 \/ ~Has(ns, id) \/ ns[id].parentId = NULL THEN {}
    ELSE {ns[id].parentId} \cup ParentChain(ns[id].parentId, ns, fuel - 1)

\* The ids met below the given ids, along childrenIds, within the given
\* number of levels.
RECURSIVE ChildrenBelow(_, _, _)
ChildrenBelow(ids, ns, fuel) ==
    IF fuel = 0 THEN {}
    ELSE LET kids == UNION { Range(ns[k].childrenIds) :
                               k \in ids \cap DOMAIN ns }
         IN  kids \cup ChildrenBelow(kids, ns, fuel - 1)

\* C35: after a successful importData of a parseable document no node is its
\* own ancestor along parentId or its own descendant along childrenIds, so
\* that the walks of getNodeDepth, getPath and getAllChildren end.
C35_ImportedTreeAcyclic ==
    [][ImportSucceeds =>
          \A id \in DOMAIN nodes' :
              /\ id \notin ParentChain(id, nodes',
                                       Cardinality(DOMAIN nodes'))
              /\ id \notin ChildrenBelow({id}, nodes',
                                         Cardinality(DOMAIN nodes'))]_vars

----------------------------------------------------------------------------
(* updateNode and the structure of the tree                                *)

\* The structure of a tree: the keys of the node map, rootNodeIds, and the
\* id, parentId, childrenIds and level of every node.
StructureOf(ns, roots) ==
    [rootNodeIds |-> roots,
     nodes |-> [k \in DOMAIN ns |->
                  [id |-> ns[k].id, parentId |-> ns[k].parentId,
                   childrenIds |-> ns[k].childrenIds, level |-> ns[k].level]]]

\* C38: updateNode(id, updates) leaves the structure of the tree as it was,
\* whatever fields updates holds.
C38_UpdateKeepsStructure ==
    [][\A id \in TreeIds, updates \in Updates :
           updateNode(id, updates) =>
               StructureOf(nodes', rootNodeIds')
                   = StructureOf(nodes, rootNodeIds)]_vars

----------------------------------------------------------------------------
(* Export followed by import                                               *)

\* C37: on every state reached by createNode, deleteNode, moveNode,
\* duplicateNode, updateNode, selectNode, undo and redo,
\* importData(exportData()) succeeds and gives nodes, rootNodeIds and
\* selectedNodeIds equal to those the export was made of.
C37_ExportImportRoundTrip ==
    lastInput.op = "importData" =>
        /\ ~threw
        /\ nodes = lastInput.before.nodes
        /\ rootNodeIds = lastInput.before.rootNodeIds
        /\ selectedNodeIds = lastInput.before.session[1]

----------------------------------------------------------------------------
(* Templates whose root was deleted                                        *)

\* C39: every template in the registry stays applicable: applyTemplate on a
\* registered template never throws, and when the root of the template is
\* no longer a key of the node map the call leaves the store as it was.
C39_TemplatesStayApplicable ==
    [][\A r \in templates, p \in TreeIds \cup {NULL} :
           (applyTemplate(r, p) /\ threw' = applyTemplateThrows(r)) =>
               /\ ~threw'
               /\ ~Has(nodes, r) =>
                      UNCHANGED <<treeVars, sessionVars, histVars,
                                  templates>>]_vars

----------------------------------------------------------------------------
(* The limit of the snapshot registry                                      *)

\* The snapshots of the registry a createSnapshot call found that the call
\* removed.
RemovedSnapshots ==
    { i \in DOMAIN lastInput.before :
        SnapshotAt(lastInput.before[i].id, snapshots) = 0 }

\* C40: after every createSnapshot call the registry holds the snapshot just
\* made and at most MAX_SNAPSHOTS entries, and a snapshot the call removed
\* is no newer than any snapshot it kept and was entered before every kept
\* snapshot of the same createdAt.
C40_NewestSnapshotsKept ==
    lastInput.op = "createSnapshot" =>
        /\ SnapshotAt(lastInput.id, snapshots) # 0
        /\ Len(snapshots) <= MAX_SNAPSHOTS
        /\ \A i \in RemovedSnapshots :
               /\ \A k \in DOMAIN snapshots :
                      lastInput.before[i].createdAt <= snapshots[k].createdAt
               /\ \A j \in DOMAIN lastInput.before \ RemovedSnapshots :
                      lastInput.before[j].createdAt
                          = lastInput.before[i].createdAt => i < j

====
